---- MODULE Spec2Model ----
(***************************************************************************)
(* A model of lucent's per-connection request pipeline: the URI parser,    *)
(* the response generator with its authentication gate, and the keep-alive *)
(* connection loop.                                                        *)
(*                                                                         *)
(* Text is modelled as a sequence of one-character strings, so that        *)
(* splitting, slicing and percent-decoding are computed, not assumed.      *)
(***************************************************************************)
EXTENDS Integers, Sequences, FiniteSets, TLC

VARIABLES
    uri_in,      \* URI parser: the (method, raw target) handed to Uri::from
    uri_out,     \* URI parser: the result of Uri::from, once it has run
    gen,         \* response generator: one get_response call in progress
    pc,          \* connection loop: where handle_conn stands
    configs,     \* connection loop: the shared list of virtual servers
    cur,         \* connection loop: the request (or verifier error) in hand
    output,      \* connection loop: the MiddlewareOutput in hand
    nparsed,     \* connection loop: requests the verifier has returned so far
    written,     \* connection loop: what has been written to the connection
    last,        \* connection loop: how the last loop iteration ended
    sub          \* one part on its own (message parser, conditional checker,
                 \* range evaluator, reader, accept loop): its state

vars == <<uri_in, uri_out, gen, pc, configs, cur, output, nparsed, written, last, sub>>

(***************************************************************************)
(* Option values and Rust string helpers                                   *)
(***************************************************************************)
NoneOpt == [some |-> FALSE]
Some(v) == [some |-> TRUE, val |-> v]

\* str::find(ch): the 1-based index of the first occurrence, 0 when absent.
Find(s, c) ==
    IF \E i \in 1..Len(s) : s[i] = c
    THEN CHOOSE i \in 1..Len(s) : s[i] = c /\ \A j \in 1..(i - 1) : s[j] # c
    ELSE 0

\* str::split(ch): every piece between separators, empty pieces included.
RECURSIVE Split(_, _)
Split(s, c) ==
    LET i == Find(s, c)
    IN  IF i = 0 THEN <<s>>
        ELSE <<SubSeq(s, 1, i - 1)>> \o Split(SubSeq(s, i + 1, Len(s)), c)

\* str::match_indices(ch): the ascending 1-based indices of ch in s.
RECURSIVE MatchIndicesFrom(_, _, _)
MatchIndicesFrom(s, c, i) ==
    IF i > Len(s) THEN <<>>
    ELSE (IF s[i] = c THEN <<i>> ELSE <<>>) \o MatchIndicesFrom(s, c, i + 1)

MatchIndices(s, c) == MatchIndicesFrom(s, c, 1)

StartsWith(s, p) == Len(s) >= Len(p) /\ SubSeq(s, 1, Len(p)) = p

RECURSIVE Join(_, _)
Join(parts, sep) ==
    IF parts = <<>> THEN <<>>
    ELSE IF Len(parts) = 1 THEN parts[1]
    ELSE parts[1] \o sep \o Join(Tail(parts), sep)

RECURSIVE Concat(_)
Concat(parts) == IF parts = <<>> THEN <<>> ELSE Head(parts) \o Concat(Tail(parts))

(***************************************************************************)
(* Characters                                                              *)
(***************************************************************************)
Digits == <<"0", "1", "2", "3", "4", "5", "6", "7", "8", "9">>
LowerHex == <<"a", "b", "c", "d", "e", "f">>
UpperHex == <<"A", "B", "C", "D", "E", "F">>

DigitChars == {Digits[i] : i \in 1..10}
LetterChars ==
    {"a", "b", "c", "d", "e", "f", "g", "h", "i", "j", "k", "l", "m",
     "n", "o", "p", "q", "r", "s", "t", "u", "v", "w", "x", "y", "z",
     "A", "B", "C", "D", "E", "F", "G", "H", "I", "J", "K", "L", "M",
     "N", "O", "P", "Q", "R", "S", "T", "U", "V", "W", "X", "Y", "Z"}

\* char::is_ascii_alphanumeric
IsAsciiAlphanumeric(ch) == ch \in DigitChars \cup LetterChars

\* The printable ASCII characters 0x20..0x7e in code order (the double quote,
\* the backslash and the backtick are named by their codes).
Ascii ==
    <<" ", "!", "#34", "#", "$", "%", "&", "'", "(", ")", "*", "+", ",", "-", ".", "/",
      "0", "1", "2", "3", "4", "5", "6", "7", "8", "9", ":", ";", "<", "=", ">", "?",
      "@", "A", "B", "C", "D", "E", "F", "G", "H", "I", "J", "K", "L", "M", "N", "O",
      "P", "Q", "R", "S", "T", "U", "V", "W", "X", "Y", "Z", "[", "#92", "]", "^", "_",
      "#96", "a", "b", "c", "d", "e", "f", "g", "h", "i", "j", "k", "l", "m", "n", "o",
      "p", "q", "r", "s", "t", "u", "v", "w", "x", "y", "z", "{", "|", "}", "~">>

\* byte as char: the character with code n; outside printable ASCII the
\* character is named by its code.
AsciiSet == {Ascii[i] : i \in 1..Len(Ascii)}

Chr(n) == IF n >= 32 /\ n <= 126 THEN Ascii[n - 31] ELSE "#" \o ToString(n)

\* One hexadecimal digit's value, -1 for any other character.
HexDigit(ch) ==
    IF \E i \in 1..10 : Digits[i] = ch THEN (CHOOSE i \in 1..10 : Digits[i] = ch) - 1
    ELSE IF \E i \in 1..6 : LowerHex[i] = ch THEN (CHOOSE i \in 1..6 : LowerHex[i] = ch) + 9
    ELSE IF \E i \in 1..6 : UpperHex[i] = ch THEN (CHOOSE i \in 1..6 : UpperHex[i] = ch) + 9
    ELSE -1

\* u8::from_str_radix(two characters, 16): two hex digits, or a plus sign and one.
FromStrRadix16(two) ==
    LET hi == HexDigit(two[1])
        lo == HexDigit(two[2])
    IN  IF lo < 0 THEN NoneOpt
        ELSE IF hi >= 0 THEN Some(16 * hi + lo)
        ELSE IF two[1] = "+" THEN Some(lo)
        ELSE NoneOpt

HOST_CHARS == {"-", ".", "_", "~", "%", "!", "$", "&", "'", "(", ")", "*", "+", ",", ";", "="}

is_host_char(ch) == ch \in HOST_CHARS \/ IsAsciiAlphanumeric(ch)
is_user_info_char(ch) == is_host_char(ch) \/ ch = ":"
is_path_char(ch) == is_user_info_char(ch) \/ ch = "@"
is_query_char(ch) == is_path_char(ch) \/ ch = "/" \/ ch = "?"

AllChars(s, chars) == \A i \in 1..Len(s) : s[i] \in chars

(***************************************************************************)
(* decode_percent                                                          *)
(***************************************************************************)
\* The loop over the indices of the percent signs: decoded is what has been
\* produced, last_index the (1-based) index after the previous escape.
RECURSIVE DecodeLoop(_, _, _, _)
DecodeLoop(str, idxs, decoded, last_index) ==
    IF idxs = <<>> THEN Some(decoded \o SubSeq(str, last_index, Len(str)))
    ELSE LET index == Head(idxs)
         IN  IF index + 2 > Len(str) THEN NoneOpt
             ELSE LET b == FromStrRadix16(SubSeq(str, index + 1, index + 2))
                  IN  IF ~b.some THEN NoneOpt
                      ELSE DecodeLoop(str, Tail(idxs),
                                      decoded \o SubSeq(str, last_index, index - 1)
                                              \o <<Chr(b.val)>>,
                                      index + 3)

decode_percent(str) == DecodeLoop(str, MatchIndices(str, "%"), <<>>, 1)

(***************************************************************************)
(* The URI parser (http/uri.rs)                                            *)
(***************************************************************************)
MAX_URI_LENGTH == 8192

Ok(v) == [ok |-> TRUE, val |-> v]
Err(e) == [ok |-> FALSE, err |-> e]

\* str::splitn(2, ch): at most two pieces, split at the first occurrence.
SplitN2(s, c) ==
    LET i == Find(s, c)
    IN  IF i = 0 THEN <<s>> ELSE <<SubSeq(s, 1, i - 1), SubSeq(s, i + 1, Len(s))>>

\* Option<Vec<_>> collected from a sequence of options: None if any is None.
RECURSIVE CollectOptions(_)
CollectOptions(opts) ==
    IF opts = <<>> THEN Some(<<>>)
    ELSE LET rest == CollectOptions(Tail(opts))
         IN  IF Head(opts).some /\ rest.some THEN Some(<<Head(opts).val>> \o rest.val)
             ELSE NoneOpt

\* A HashMap collected from (key, value) pairs: a later pair replaces an
\* earlier one with the same key.
PairsToMap(pairs) ==
    [k \in {pairs[i][1] : i \in 1..Len(pairs)} |->
        pairs[CHOOSE i \in 1..Len(pairs) :
                  pairs[i][1] = k /\ \A j \in (i + 1)..Len(pairs) : pairs[j][1] # k][2]]

parse_query(raw_query) ==
    IF raw_query = <<>> THEN Ok([kind |-> "None"])
    ELSE IF Find(raw_query, "=") # 0 THEN
        LET pieces == Split(raw_query, "&")
            params == [i \in 1..Len(pieces) |-> SplitN2(pieces[i], "=")]
        IN  IF ~(\A i \in 1..Len(params) :
                    /\ Len(params[i]) = 2
                    /\ AllChars(params[i][1], {ch \in AsciiSet : is_query_char(ch)})
                    /\ AllChars(params[i][2], {ch \in AsciiSet : is_query_char(ch)}))
            THEN Err("InvalidUri")
            ELSE LET decoded == [i \in 1..Len(params) |->
                                    LET k == decode_percent(params[i][1])
                                        v == decode_percent(params[i][2])
                                    IN  IF k.some /\ v.some THEN Some(<<k.val, v.val>>)
                                        ELSE NoneOpt]
                     query == CollectOptions(decoded)
                 IN  IF ~query.some THEN Err("InvalidUri")
                     ELSE Ok([kind |-> "ParamMap", map |-> PairsToMap(query.val)])
    ELSE
        LET pieces == Split(raw_query, "+")
            terms == CollectOptions([i \in 1..Len(pieces) |-> decode_percent(pieces[i])])
        IN  IF ~terms.some THEN Err("InvalidUri")
            ELSE Ok([kind |-> "SearchString", terms |-> terms.val])

\* The segment check of parse_absolute_path, made before percent-decoding.
SegmentRejected(part) == part = <<>> \/ ~AllChars(part, {ch \in AsciiSet : is_path_char(ch)}) \/ part = <<".", ".">>

\* UriParser::parse_absolute_path on what is left of the raw target.
parse_absolute_path(raw, accept_empty) ==
    IF ~accept_empty /\ (raw = <<>> \/ ~StartsWith(raw, <<"/">>)) THEN Err("InvalidUri")
    ELSE
        LET q == Find(raw, "?")
            path0 == IF q # 0 THEN SubSeq(raw, 1, q - 1) ELSE raw
            raw_query == IF q # 0 THEN SubSeq(raw, q + 1, Len(raw)) ELSE <<>>
            raw_path == IF path0 # <<>> /\ path0[Len(path0)] = "/"
                        THEN SubSeq(path0, 1, Len(path0) - 1) ELSE path0
            split == Split(raw_path, "/")
        IN  IF split[1] # <<>> THEN Err("InvalidUri")
            ELSE LET path == Tail(split)
                 IN  IF \E i \in 1..Len(path) : SegmentRejected(path[i]) THEN Err("InvalidUri")
                     ELSE LET decoded == CollectOptions([i \in 1..Len(path) |->
                                                            decode_percent(path[i])])
                              query == parse_query(raw_query)
                          IN  IF ~decoded.some THEN Err("InvalidUri")
                              ELSE IF ~query.ok THEN query
                              ELSE Ok([path |-> decoded.val, query |-> query.val])

\* UriParser::parse_pre_authority: the scheme, and the raw target after it.
parse_pre_authority(raw) ==
    IF StartsWith(raw, <<"h", "t", "t", "p", ":", "/", "/">>) /\ Len(raw) > 7
    THEN Ok([scheme |-> "http", rest |-> SubSeq(raw, 8, Len(raw))])
    ELSE IF StartsWith(raw, <<"h", "t", "t", "p", "s", ":", "/", "/">>) /\ Len(raw) > 8
    THEN Ok([scheme |-> "https", rest |-> SubSeq(raw, 9, Len(raw))])
    ELSE Err("InvalidUri")

\* str::parse::<u16>(): an optional plus sign, then decimal digits, at most 65535.
RECURSIVE DecimalValue(_, _)
DecimalValue(s, acc) ==
    IF s = <<>> THEN acc
    ELSE IF acc > 65535 THEN acc
    ELSE DecimalValue(Tail(s), 10 * acc + HexDigit(Head(s)))

ParseU16(s) ==
    LET digits == IF s # <<>> /\ s[1] = "+" THEN Tail(s) ELSE s
    IN  IF digits = <<>> \/ ~AllChars(digits, DigitChars) THEN NoneOpt
        ELSE IF DecimalValue(digits, 0) > 65535 THEN NoneOpt
        ELSE Some(DecimalValue(digits, 0))

\* UriParser::parse_authority: the authority, and the raw target that the
\* next stage parses (the code cuts off as many characters as the authority
\* part has after its user info was removed).
parse_authority(raw, accept_user) ==
    LET slash == Find(raw, "/")
        part0 == SubSeq(raw, 1, IF slash # 0 THEN slash - 1 ELSE Len(raw))
        at == Find(part0, "@")
        info == SubSeq(part0, 1, at - 1)
        authority_part == IF at # 0 THEN SubSeq(part0, at + 1, Len(part0)) ELSE part0
        host_and_port == Split(authority_part, ":")
    IN  IF at # 0 /\ (~accept_user \/ ~AllChars(info, {ch \in AsciiSet : is_user_info_char(ch)})) THEN Err("InvalidUri")
        ELSE IF at # 0 /\ ~decode_percent(info).some THEN Err("InvalidUri")
        ELSE IF Len(host_and_port) > 2 THEN Err("InvalidUri")
        ELSE IF ~AllChars(host_and_port[1], {ch \in AsciiSet : is_host_char(ch)}) THEN Err("InvalidUri")
        ELSE IF ~decode_percent(host_and_port[1]).some THEN Err("InvalidUri")
        ELSE IF Len(host_and_port) = 2 /\ ~ParseU16(host_and_port[2]).some THEN Err("InvalidUri")
        ELSE Ok([authority |->
                    [user_info |-> IF at # 0 THEN decode_percent(info) ELSE NoneOpt,
                     host |-> decode_percent(host_and_port[1]).val,
                     port |-> IF Len(host_and_port) = 2 THEN ParseU16(host_and_port[2])
                              ELSE NoneOpt],
                 rest |-> SubSeq(raw, Len(authority_part) + 1, Len(raw))])

\* UriParser::parse, i.e. Uri::from(method, raw).
UriParse(method, raw) ==
    IF Len(raw) > MAX_URI_LENGTH THEN Err("UriTooLong")
    ELSE IF raw = <<"*">> /\ method = "OPTIONS" THEN Ok([form |-> "AsteriskForm"])
    ELSE IF method = "CONNECT" THEN
        LET a == parse_authority(raw, FALSE)
        IN  IF ~a.ok THEN a
            ELSE Ok([form |-> "AuthorityForm", authority |-> a.val.authority])
    ELSE IF StartsWith(raw, <<"/">>) THEN
        LET p == parse_absolute_path(raw, FALSE)
        IN  IF ~p.ok THEN p ELSE Ok([form |-> "OriginForm", path |-> p.val])
    ELSE
        LET s == parse_pre_authority(raw)
        IN  IF ~s.ok THEN s
            ELSE LET a == parse_authority(s.val.rest, TRUE)
                 IN  IF ~a.ok THEN a
                     ELSE LET p == parse_absolute_path(a.val.rest, TRUE)
                          IN  IF ~p.ok THEN p
                              ELSE Ok([form |-> "AbsoluteForm", scheme |-> s.val.scheme,
                                       authority |-> a.val.authority, path |-> p.val])

\* The path segments of a parsed URI (none for the forms without a path).
UriSegments(uri) ==
    IF uri.form \in {"OriginForm", "AbsoluteForm"} THEN uri.path.path ELSE <<>>

(***************************************************************************)
(* Formatting of a parsed URI (http/uri.rs)                                *)
(***************************************************************************)
\* util::is_visible_char: the characters from the exclamation mark to the tilde
\* (Ascii[1] is the space).
VisibleChars == {Ascii[i] : i \in 2..Len(Ascii)}

\* The two hexadecimal digits written by the format string {:02x}.
HexByte(n) == <<(Digits \o LowerHex)[(n \div 16) + 1], (Digits \o LowerHex)[(n % 16) + 1]>>

\* The byte of a character of the Ascii table.
Ord(ch) == CHOOSE n \in 0..255 : Chr(n) = ch

encode_percent(str) ==
    Concat([i \in 1..Len(str) |->
               IF str[i] \in VisibleChars THEN <<str[i]>> ELSE <<"%">> \o HexByte(Ord(str[i]))])

path_as_string(path) == Join(path.path, <<"/">>)

\* The keys of a parameter map in one iteration order (the maps formatted in
\* this development have at most one key, so there is one order only).
RECURSIVE KeysInOrder(_)
KeysInOrder(keys) ==
    IF keys = {} THEN <<>>
    ELSE LET k == CHOOSE x \in keys : TRUE IN <<k>> \o KeysInOrder(keys \ {k})

query_as_string(path) ==
    IF path.query.kind = "ParamMap" THEN
        LET keys == KeysInOrder(DOMAIN path.query.map)
        IN  Join([i \in 1..Len(keys) |-> keys[i] \o <<"=">> \o path.query.map[keys[i]]], <<"&">>)
    ELSE IF path.query.kind = "SearchString" THEN Join(path.query.terms, <<"+">>)
    ELSE <<>>

\* Display for AbsolutePath: nothing is written between the path and the query.
AbsolutePathToString(path) ==
    <<"/">> \o encode_percent(path_as_string(path)) \o encode_percent(query_as_string(path))

\* The decimal digits of a natural number.
RECURSIVE DecimalChars(_)
DecimalChars(n) ==
    IF n < 10 THEN <<Digits[n + 1]>> ELSE DecimalChars(n \div 10) \o <<Digits[(n % 10) + 1]>>

\* Display for Authority.
AuthorityToString(a) ==
    encode_percent(IF a.user_info.some THEN a.user_info.val \o <<"@">> ELSE <<>>)
        \o encode_percent(a.host)
        \o (IF a.port.some THEN <<":">> \o DecimalChars(a.port.val) ELSE <<>>)

SchemeChars(scheme) ==
    IF scheme = "http" THEN <<"h", "t", "t", "p">> ELSE <<"h", "t", "t", "p", "s">>

\* Display for Uri.
UriToString(uri) ==
    IF uri.form = "OriginForm" THEN AbsolutePathToString(uri.path)
    ELSE IF uri.form = "AbsoluteForm" THEN
        SchemeChars(uri.scheme) \o <<":", "/", "/">> \o AuthorityToString(uri.authority)
            \o AbsolutePathToString(uri.path)
    ELSE IF uri.form = "AuthorityForm" THEN AuthorityToString(uri.authority)
    ELSE <<"*">>

to_string_no_query(uri) ==
    IF uri.form = "OriginForm" THEN path_as_string(uri.path)
    ELSE IF uri.form = "AbsoluteForm" THEN
        SchemeChars(uri.scheme) \o <<":", "/", "/">> \o AuthorityToString(uri.authority)
            \o path_as_string(uri.path)
    ELSE UriToString(uri)

(***************************************************************************)
(* Headers and the response builder (http/headers.rs, http/message.rs)     *)
(*                                                                         *)
(* A header map is a function from header names to sequences of values.    *)
(* The names are the lower-case constants of consts.rs, written as         *)
(* strings; the values are sequences of characters.                        *)
(***************************************************************************)
OPTIONAL_WHITESPACE == {" ", "#9"}

is_valid_header_value(str) == AllChars(str, VisibleChars \cup OPTIONAL_WHITESPACE)

NoHeaders == <<>>

headers_contains(headers, name) == name \in DOMAIN headers

headers_get(headers, name) ==
    IF name \in DOMAIN headers THEN Some(headers[name]) ELSE NoneOpt

\* Headers::set_one: an invalid value leaves the map as it was.
headers_set_one(headers, name, value) ==
    IF ~is_valid_header_value(value) THEN headers
    ELSE (name :> <<value>>) @@ headers

\* Headers::set
headers_set(headers, name, values) ==
    IF \E i \in 1..Len(values) : ~is_valid_header_value(values[i]) THEN headers
    ELSE (name :> values) @@ headers

headers_remove(headers, name) == [n \in DOMAIN headers \ {name} |-> headers[n]]

\* MessageBuilder::<Response>::new (the Server and Date headers, whose values
\* no property here reads, are left out).
NewResponse ==
    [status |-> 200, headers |-> headers_set_one(NoHeaders, "content-length", <<"0">>),
     body |-> NoneOpt, chunked |-> FALSE]

\* MessageBuilder::<Response>::set_status
set_status(response, status) ==
    [response EXCEPT !.status = status,
                     !.headers = IF status = 204 \/ status < 200
                                 THEN headers_remove(@, "content-length")
                                 ELSE @]

with_header(response, name, value) ==
    [response EXCEPT !.headers = headers_set_one(response.headers, name, value)]

(***************************************************************************)
(* MiddlewareOutput (server/middleware/mod.rs)                             *)
(***************************************************************************)
NoOutput == [kind |-> "None", status |-> 0, close |-> FALSE, headers |-> NoHeaders]
OutStatus(status, close) ==
    [kind |-> "Status", status |-> status, close |-> close, headers |-> NoHeaders]
OutError(status, close) ==
    [kind |-> "Error", status |-> status, close |-> close, headers |-> NoHeaders]
OutResponse(response, close) ==
    [kind |-> "Response", status |-> response.status, close |-> close,
     headers |-> response.headers]
OutBytes(close) == [kind |-> "Bytes", status |-> 0, close |-> close, headers |-> NoHeaders]
Terminate == [kind |-> "Terminate", status |-> 0, close |-> FALSE, headers |-> NoHeaders]

(***************************************************************************)
(* HTTP basic authentication (server/middleware/basic_auth.rs)             *)
(***************************************************************************)
\* The alphabet of base64::decode: the value of a character is its index
\* minus one.
B64Alphabet ==
    <<"A", "B", "C", "D", "E", "F", "G", "H", "I", "J", "K", "L", "M", "N", "O", "P", "Q",
      "R", "S", "T", "U", "V", "W", "X", "Y", "Z", "a", "b", "c", "d", "e", "f", "g", "h",
      "i", "j", "k", "l", "m", "n", "o", "p", "q", "r", "s", "t", "u", "v", "w", "x", "y",
      "z", "0", "1", "2", "3", "4", "5", "6", "7", "8", "9", "+", "/">>

B64Chars == {B64Alphabet[i] : i \in 1..Len(B64Alphabet)}

B64Value(ch) == (CHOOSE i \in 1..Len(B64Alphabet) : B64Alphabet[i] = ch) - 1

\* The bytes of one group of four characters, the last group possibly padded.
B64Group(g) ==
    LET pad == IF g[4] # "=" THEN 0 ELSE IF g[3] # "=" THEN 1 ELSE 2
        v3 == IF pad >= 2 THEN 0 ELSE B64Value(g[3])
        v4 == IF pad >= 1 THEN 0 ELSE B64Value(g[4])
        n == ((B64Value(g[1]) * 64 + B64Value(g[2])) * 64 + v3) * 64 + v4
        bytes == <<n \div 65536, (n \div 256) % 256, n % 256>>
    IN  SubSeq(bytes, 1, 3 - pad)

\* A group is well formed if its characters are of the alphabet, the padding
\* is at its end, and the bits that the padding cuts off are zero.
B64GroupOk(g, is_last) ==
    /\ g[1] \in B64Chars /\ g[2] \in B64Chars
    /\ g[3] \in B64Chars \cup (IF is_last /\ g[4] = "=" THEN {"="} ELSE {})
    /\ g[4] \in B64Chars \cup (IF is_last THEN {"="} ELSE {})
    /\ (g[3] = "=" => B64Value(g[2]) % 16 = 0)
    /\ (g[3] # "=" /\ g[4] = "=" => B64Value(g[3]) % 4 = 0)

\* base64::decode on a text whose length is a multiple of four (the texts
\* decoded in this development are of such lengths).
base64_decode(s) ==
    LET groups == [k \in 1..(Len(s) \div 4) |-> SubSeq(s, 4 * k - 3, 4 * k)]
    IN  IF Len(s) % 4 # 0 THEN Err("InvalidLength")
        ELSE IF \E k \in 1..Len(groups) : ~B64GroupOk(groups[k], k = Len(groups))
        THEN Err("InvalidByte")
        ELSE Ok(Concat([k \in 1..Len(groups) |-> B64Group(groups[k])]))

\* String::from_utf8 on bytes that are either ASCII or the byte 255, which
\* no UTF-8 text contains.
from_utf8(bytes) ==
    IF \A i \in 1..Len(bytes) : bytes[i] < 128
    THEN Ok([i \in 1..Len(bytes) |-> Chr(bytes[i])])
    ELSE Err("FromUtf8Error")

\* A bcrypt hash is modelled by the password it was made from; a stored text
\* of another shape is the hash of no password.
bcrypt_hash(password) == <<"$">> \o password

bcrypt_verify(password, password_hash) == password_hash = bcrypt_hash(password)

\* str::to_ascii_lowercase
ToAsciiLowercase(s) ==
    [i \in 1..Len(s) |->
        LET up == <<"A", "B", "C", "D", "E", "F", "G", "H", "I", "J", "K", "L", "M", "N",
                    "O", "P", "Q", "R", "S", "T", "U", "V", "W", "X", "Y", "Z">>
        IN  IF \E k \in 1..26 : up[k] = s[i]
            THEN B64Alphabet[26 + CHOOSE k \in 1..26 : up[k] = s[i]]
            ELSE s[i]]

eq_ignore_ascii_case(a, b) == ToAsciiLowercase(a) = ToAsciiLowercase(b)

H_AUTH_BASIC == <<"b", "a", "s", "i", "c">>
H_AUTH_REALM == <<"r", "e", "a", "l", "m">>

\* A RouteSpec without variable captures: the regular expression built by
\* convert_to_regex is the route itself, anchored at the start, and at the end
\* too for an exact route.
RouteMatches(route, target) ==
    IF route.exact THEN target = route.path ELSE StartsWith(target, route.path)

\* BasicAuthChecker::www_authenticate_output
www_authenticate_output(realm) ==
    LET auth == H_AUTH_BASIC \o <<" ">> \o H_AUTH_REALM \o <<"=", "#34">> \o realm \o <<"#34">>
        response == with_header(set_status(NewResponse, 401), "www-authenticate", auth)
    IN  Err(OutResponse(response, FALSE))

\* BasicAuthChecker::check_auth_header
check_auth_header(auth, realm, realm_credentials) ==
    LET parts == SplitN2(auth[1], " ")
        decoded == base64_decode(parts[2])
        text == from_utf8(decoded.val)
        credentials == SplitN2(text.val, ":")
    IN  IF /\ Len(parts) > 1
           /\ eq_ignore_ascii_case(parts[1], H_AUTH_BASIC)
           /\ decoded.ok
           /\ text.ok
           /\ Len(credentials) > 1
           /\ \E i \in 1..Len(realm_credentials) :
                 /\ realm_credentials[i].user = credentials[1]
                 /\ bcrypt_verify(credentials[2], realm_credentials[i].password_hash)
        THEN Ok(TRUE)
        ELSE www_authenticate_output(realm)

\* Whether some route of the realm matches the target.
RealmMatches(info, target) ==
    \E r \in 1..Len(info.routes) : RouteMatches(info.routes[r], target)

\* BasicAuthChecker::check; basic_auth lists the realms in the order in which
\* the hash map hands them out.
check(request, config) ==
    LET target == UriToString(request.uri)
        matching == {i \in 1..Len(config.basic_auth) :
                        RealmMatches(config.basic_auth[i], target)}
    IN  IF matching = {} THEN Ok(FALSE)
        ELSE LET first == CHOOSE i \in matching : \A j \in matching : i <= j
                 realm == config.basic_auth[first]
                 auth == headers_get(request.headers, "authorization")
             IN  IF auth.some THEN check_auth_header(auth.val, realm.realm, realm.credentials)
                 ELSE www_authenticate_output(realm.realm)

(***************************************************************************)
(* The response generator (server/middleware/response_gen.rs)              *)
(*                                                                         *)
(* A generator is a record: the request and the configuration it was made  *)
(* for, the answers env of the file system and of the script to what the   *)
(* generator asks them, its position state, the response it is building    *)
(* and the output out it ends with.  It counts the files it opened, the    *)
(* listings it rendered and the scripts it ran.                            *)
(***************************************************************************)
EndsWith(s, suffix) ==
    Len(s) >= Len(suffix) /\ SubSeq(s, Len(s) - Len(suffix) + 1, Len(s)) = suffix

\* The index of the last occurrence of c in s, 0 if there is none.
LastIndexOf(s, c) ==
    IF \E i \in 1..Len(s) : s[i] = c
    THEN CHOOSE i \in 1..Len(s) : s[i] = c /\ \A j \in (i + 1)..Len(s) : s[j] # c
    ELSE 0

\* Path::extension: what follows the last dot of the file name, unless the
\* name has no dot or begins with its only dot.
PathExtension(path) ==
    LET parts == Split(path, "/")
        name == parts[Len(parts)]
        dot == LastIndexOf(name, ".")
    IN  IF dot <= 1 THEN <<>> ELSE SubSeq(name, dot + 1, Len(name))

\* The third component of get_req_targets, for a routed target that parses
\* to the URI of the request.
target_file(g) == g.config.file_root \o <<"/">> \o to_string_no_query(g.request.uri)

NewGenerator(request, config, env) ==
    [state |-> "auth", request |-> request, config |-> config, env |-> env,
     required_auth |-> FALSE, opens |-> 0, listed |-> 0, scripts |-> 0,
     response |-> NewResponse, out |-> NoOutput]

Finish(g, out) == [g EXCEPT !.state = "done", !.out = out]

\* CgiRunner::get_response: every way out of it is an output.
script_response(g, is_nph) ==
    IF g.env.script = "success" THEN
        IF is_nph THEN OutBytes(FALSE) ELSE OutResponse(NewResponse, FALSE)
    ELSE IF g.env.script = "empty" /\ is_nph THEN OutBytes(FALSE)
    ELSE OutError(500, FALSE)

\* ConditionalChecker::check, by the answer of the conditional headers.
conditional_check(g) ==
    IF g.env.cond = "precondition_failed" THEN OutStatus(412, FALSE)
    ELSE IF g.env.cond = "not_modified" THEN OutStatus(304, FALSE)
    ELSE NoOutput

\* ResponseGenerator::set_range_body, by the answer of the range parser.
set_range_body(g) ==
    IF g.env.range = "unsatisfiable" THEN Finish(g, OutStatus(416, FALSE))
    ELSE IF g.env.range = "failed" THEN Finish(g, OutError(500, FALSE))
    ELSE IF g.env.range = "single" THEN
        [g EXCEPT !.response = set_status(with_header(@, "content-range", <<"b">>), 206)]
    ELSE IF g.env.range = "multipart" THEN [g EXCEPT !.response = set_status(@, 206)]
    ELSE g

\* ResponseGenerator::set_file_body
set_file_body(g, cgi) ==
    LET target == target_file(g)
        file_ext == PathExtension(target)
        target_no_ext == SubSeq(target, 1, Len(target) - Len(file_ext) - 1)
        is_nph == EndsWith(target_no_ext, <<"_", "n", "p", "h", "_", "c", "g", "i">>)
    IN  IF EndsWith(target_no_ext, <<"_", "c", "g", "i">>)
        THEN Finish([g EXCEPT !.scripts = @ + 1], script_response(g, is_nph))
        ELSE IF cgi THEN g
        ELSE IF conditional_check(g).kind # "None" THEN Finish(g, conditional_check(g))
        ELSE IF g.request.method = "HEAD" THEN g
        ELSE IF g.env.reopen = "error" THEN Finish([g EXCEPT !.opens = @ + 1], Terminate)
        ELSE set_range_body([g EXCEPT !.opens = @ + 1])

\* A lister that renders every directory whose entries it can read.
get_listing_body_ungated(g) ==
    IF g.env.listing \in {"unreadable", "unreadable_viewable"} THEN OutError(404, FALSE)
    ELSE IF g.env.listing = "viewable_unreadable" THEN Terminate
    ELSE IF g.env.listing = "template_error" THEN OutError(500, FALSE)
    ELSE NoOutput

\* DirectoryLister::get_listing_body, by what the directory is: its entries
\* cannot be read (unreadable, and unreadable_viewable if one of them is
\* named .viewable), it has no entry named .viewable (plain), or it has one
\* (viewable), which cannot be read (viewable_unreadable), or the template
\* fails on it (template_error).
get_listing_body(g) ==
    IF g.env.listing \in {"unreadable", "unreadable_viewable"} THEN OutError(404, FALSE)
    ELSE IF g.env.listing = "viewable_unreadable" THEN Terminate
    ELSE IF g.env.listing = "plain" /\ ~g.config.dir_listing.all_viewable
    THEN OutError(403, FALSE)
    ELSE IF g.env.listing = "template_error" THEN OutError(500, FALSE)
    ELSE NoOutput

\* ResponseGenerator::set_body
set_body(g) ==
    IF g.request.method # "GET" /\ g.request.method # "HEAD" THEN
        LET r == set_file_body(g, TRUE)
        IN  IF r.state = "done" THEN r ELSE Finish(r, OutStatus(405, FALSE))
    ELSE IF g.env.open = "dir" THEN
        IF g.config.dir_listing.enabled THEN
            LET listing == get_listing_body(g)
                r == [g EXCEPT !.listed = @ + 1]
            IN  IF listing.kind # "None" THEN Finish(r, listing) ELSE r
        ELSE Finish(g, OutError(404, FALSE))
    ELSE set_file_body(g, FALSE)

\* A generator that opens the target file before it checks authentication.
CheckAuthAfterOpen(g) ==
    IF g.env.open = "missing" THEN Finish([g EXCEPT !.opens = @ + 1], OutError(404, FALSE))
    ELSE LET r == check(g.request, g.config)
         IN  IF r.ok THEN [g EXCEPT !.state = "open", !.required_auth = r.val]
             ELSE Finish([g EXCEPT !.opens = @ + 1], r.err)

\* get_response, first statement: the authentication check.
CheckAuthStep(g) ==
    LET r == check(g.request, g.config)
    IN  IF r.ok THEN [g EXCEPT !.state = "open", !.required_auth = r.val]
        ELSE Finish(g, r.err)

\* get_response: File::open of the target file, then its metadata.
OpenFileStep(g) ==
    IF g.env.open = "missing" THEN Finish([g EXCEPT !.opens = @ + 1], OutError(404, FALSE))
    ELSE IF g.env.meta = "error" THEN Finish([g EXCEPT !.opens = @ + 1], Terminate)
    ELSE [g EXCEPT !.opens = @ + 1, !.state = "body"]

\* get_response: set_body, whose error is the output.
SetBodyStep(g) ==
    LET r == set_body(g)
    IN  IF r.state = "done" THEN r ELSE [r EXCEPT !.state = "build"]

\* get_response, last statements: the validators and the body are attached
\* and the response is the output (get_response never returns Ok).
BuildResponseStep(g) ==
    Finish(g, OutResponse(with_header(with_header(with_header(g.response,
                              "etag", <<"e">>), "last-modified", <<"m">>),
                              "content-type", <<"t">>), FALSE))

GenStep(g) ==
    IF g.state = "auth" THEN CheckAuthStep(g)
    ELSE IF g.state = "open" THEN OpenFileStep(g)
    ELSE IF g.state = "body" THEN SetBodyStep(g)
    ELSE IF g.state = "build" THEN BuildResponseStep(g)
    ELSE g

\* ResponseGenerator::get_response from its first statement to its return.
RECURSIVE get_response(_)
get_response(g) == IF g.state = "done" THEN g ELSE get_response(GenStep(g))

(***************************************************************************)
(* The request parser seen from the connection loop (http/parser.rs)       *)
(*                                                                         *)
(* What arrives on the connection for one request is a record wire: the    *)
(* fault that the parser meets, if any, whether an Expect: 100-continue    *)
(* header comes first among the headers, and the parts of the request.     *)
(***************************************************************************)
\* The faults met before the request target is parsed, and the parser error
\* of each (a read that times out before any byte has come is an
\* EndOfStream).
LineFaults ==
    [end_of_stream |-> "EndOfStream", silence |-> "EndOfStream",
     unknown_method |-> "UnsupportedMethod", long_uri |-> "UriTooLong",
     stalled_line |-> "TimedOut", broken_line |-> "Unknown"]

\* The faults met in the headers or in the body, after the Expect header, if
\* there is one, was answered.
LaterFaults ==
    [invalid_header |-> "InvalidHeader", long_header |-> "HeaderTooLong",
     other_expect |-> "InvalidExpectHeader", no_host |-> "NoHostHeader",
     unknown_encoding |-> "UnsupportedTransferEncoding", invalid_length |-> "InvalidBody",
     large_body |-> "BodyTooLarge", stalled_body |-> "TimedOut", broken_body |-> "Unknown"]

\* MessageParser::parse_request after the request target was read: uri is
\* the result of Uri::from on it.
parse_after_target(wire, uri) ==
    IF ~uri.ok THEN [result |-> uri, continues |-> 0]
    ELSE IF wire.fault = "unknown_version"
    THEN [result |-> Err("UnsupportedVersion"), continues |-> 0]
    ELSE IF wire.expect /\ wire.fault = "broken_continue"
    THEN [result |-> Err("Unknown"), continues |-> 0]
    ELSE IF wire.fault \in DOMAIN LaterFaults
    THEN [result |-> Err(LaterFaults[wire.fault]), continues |-> IF wire.expect THEN 1 ELSE 0]
    ELSE [result |-> Ok([method |-> wire.method, uri |-> uri.val,
                         http_version |-> wire.version, headers |-> wire.headers]),
          continues |-> IF wire.expect THEN 1 ELSE 0]

\* MessageParser::parse_request: the result, and the number of 100 Continue
\* responses that parse_header wrote on the way.
parse_request(wire) ==
    IF wire.fault \in DOMAIN LineFaults
    THEN [result |-> Err(LineFaults[wire.fault]), continues |-> 0]
    ELSE parse_after_target(wire, UriParse(wire.method, wire.target))

(***************************************************************************)
(* The request verifier and the output processor                           *)
(* (server/middleware/request_verifier.rs, output_processor.rs)            *)
(***************************************************************************)
\* A verifier that leaves the connection open after a parser error.
verify_request_keeping_open(parsed) ==
    IF parsed.ok THEN parsed
    ELSE IF parsed.err = "EndOfStream" THEN Err(Terminate)
    ELSE Err(OutStatus(400, FALSE))

\* A verifier that answers every parser error but EndOfStream with 400.
verify_request_all_400(parsed) ==
    IF parsed.ok THEN parsed
    ELSE IF parsed.err = "EndOfStream" THEN Err(Terminate)
    ELSE Err(OutStatus(400, TRUE))

\* RequestVerifier::verify_request on the result of the parser.
verify_request(parsed) ==
    IF parsed.ok THEN parsed
    ELSE IF parsed.err = "EndOfStream" THEN Err(Terminate)
    ELSE Err(OutStatus(
             CASE parsed.err = "UriTooLong" -> 414
               [] parsed.err = "UnsupportedVersion" -> 505
               [] parsed.err = "HeaderTooLong" -> 431
               [] parsed.err = "InvalidExpectHeader" -> 417
               [] parsed.err = "UnsupportedTransferEncoding" -> 501
               [] parsed.err = "BodyTooLarge" -> 413
               [] parsed.err = "TimedOut" -> 408
               [] OTHER -> 400, TRUE))

H_CONN_KEEP_ALIVE == <<"k", "e", "e", "p", "-", "a", "l", "i", "v", "e">>
H_CONN_CLOSE == <<"c", "l", "o", "s", "e">>

\* OutputProcessor::respond_status
respond_status(status, close) ==
    set_status(IF close THEN with_header(NewResponse, "connection", H_CONN_CLOSE)
               ELSE NewResponse, status)

\* OutputProcessor::respond_error: the status with the page of the error
\* template as its body.
respond_error(status, close) ==
    LET response == set_status(IF close THEN with_header(NewResponse, "connection", H_CONN_CLOSE)
                               ELSE NewResponse, status)
        accept == [response EXCEPT
                      !.headers = headers_set(@, "accept", <<<<"G", "E", "T">>, <<"H", "E", "A", "D">>>>)]
    IN  with_header(accept, "content-type", <<"t", "e", "x", "t", "/", "h", "t", "m", "l">>)

\* A processor whose error pages always end the connection.
process_closing_after_error(out, io_ok) ==
    IF out.kind = "Error"
    THEN [message |-> Some(respond_error(out.status, TRUE)), close |-> TRUE]
    ELSE IF out.kind = "Status"
    THEN [message |-> Some(respond_status(out.status, out.close)), close |-> ~io_ok \/ out.close]
    ELSE IF out.kind = "Response"
    THEN [message |-> Some([status |-> out.status, headers |-> out.headers]),
          close |-> ~io_ok \/ out.close]
    ELSE IF out.kind = "Bytes"
    THEN [message |-> Some([status |-> 0, headers |-> NoHeaders]), close |-> ~io_ok \/ out.close]
    ELSE [message |-> NoneOpt, close |-> TRUE]

\* OutputProcessor::process: the message handed to the writer, if any, and
\* whether the connection is to be closed; io_ok tells whether the write
\* succeeds.
process(out, io_ok) ==
    IF out.kind = "Error"
    THEN [message |-> Some(respond_error(out.status, out.close)), close |-> ~io_ok \/ out.close]
    ELSE IF out.kind = "Status"
    THEN [message |-> Some(respond_status(out.status, out.close)), close |-> ~io_ok \/ out.close]
    ELSE IF out.kind = "Response"
    THEN [message |-> Some([status |-> out.status, headers |-> out.headers]),
          close |-> ~io_ok \/ out.close]
    ELSE IF out.kind = "Bytes"
    THEN [message |-> Some([status |-> 0, headers |-> NoHeaders]), close |-> ~io_ok \/ out.close]
    ELSE [message |-> NoneOpt, close |-> TRUE]

(***************************************************************************)
(* The connection loop (server/file_server.rs)                             *)
(***************************************************************************)
\* FileServer::client_intends_to_close
client_intends_to_close(request) ==
    IF headers_contains(request.headers, "connection")
    THEN request.headers["connection"][1] # H_CONN_KEEP_ALIVE
             \/ request.headers["connection"][1] = H_CONN_CLOSE
    ELSE request.http_version # "HTTP/1.1"

\* The first virtual server that lists the host or the wildcard, 0 if none.
find_virtual_server(servers, hostname) ==
    LET matching == {i \in 1..Len(servers) :
                        \E h \in 1..Len(servers[i].hosts) :
                            servers[i].hosts[h] = <<"*">> \/ servers[i].hosts[h] = hostname}
    IN  IF matching = {} THEN 0 ELSE CHOOSE i \in matching : \A j \in matching : i <= j

(***************************************************************************)
(* Specification of the URI parser alone: Uri::from applied to one raw     *)
(* target built from at most MaxTokens tokens.                             *)
(***************************************************************************)
MaxTokens == 4

UriTokens ==
    { <<"/">>, <<".">>, <<"x">>, <<"?">>, <<"%">>, <<"%", "2", "e">>,
      <<"h", "t", "t", "p", ":", "/", "/">> }

UriMethods == {"GET", "OPTIONS", "CONNECT"}

RawTargets == {Concat(ts) : ts \in UNION {[1..k -> UriTokens] : k \in 0..MaxTokens}}

Idle == [state |-> "idle"]

UriInit ==
    /\ uri_in \in [method : UriMethods, raw : RawTargets]
    /\ uri_out = [done |-> FALSE]
    /\ gen = Idle /\ pc = "idle" /\ configs = <<>> /\ cur = Idle /\ output = Idle
    /\ nparsed = 0 /\ written = <<>> /\ last = Idle /\ sub = Idle

\* Uri::from runs on the input.
UriFrom ==
    /\ ~uri_out.done
    /\ uri_out' = [done |-> TRUE, res |-> UriParse(uri_in.method, uri_in.raw)]
    /\ UNCHANGED <<uri_in, gen, pc, configs, cur, output, nparsed, written, last, sub>>

UriNext == UriFrom

SpecUri == UriInit /\ [][UriNext]_vars

UriReturned == uri_out.done /\ uri_out.res.ok

\* C8 (as claimed): every URI the parser returns has only non-empty path
\* segments, none of which is ".." after percent-decoding.
C8_NoDotDotAfterDecoding ==
    UriReturned =>
        \A i \in 1..Len(UriSegments(uri_out.res.val)) :
            /\ UriSegments(uri_out.res.val)[i] # <<>>
            /\ UriSegments(uri_out.res.val)[i] # <<".", ".">>

\* C26 (as claimed): serializing the URI that the parser returns for a raw
\* target gives the raw target again up to percent-encoding: the two texts
\* are equal after percent-decoding, so the question mark between the path
\* and the query and the content of the query are kept.
C26_UriRoundTrip ==
    UriReturned =>
        decode_percent(UriToString(uri_out.res.val)) = decode_percent(uri_in.raw)

(***************************************************************************)
(* Specification of the response generator alone: get_response on one      *)
(* request, one configuration and one set of answers of the file system.   *)
(***************************************************************************)
\* Realm A protects every target that begins with /s; the realm named cafe
\* with an acute accent protects the target /s/a only.
RealmA ==
    [realm |-> <<"A">>,
     credentials |-> <<[user |-> <<"u">>, password_hash |-> bcrypt_hash(<<"p">>)]>>,
     routes |-> <<[exact |-> FALSE, path |-> <<"/", "s">>]>>]

RealmCafe ==
    [realm |-> <<"c", "a", "f", "#233">>,
     credentials |-> <<[user |-> <<"v">>, password_hash |-> bcrypt_hash(<<"p">>)]>>,
     routes |-> <<[exact |-> TRUE, path |-> <<"/", "s", "/", "a">>]>>]

\* The realms in the orders in which the hash map may hand them out.
RealmOrders == {<<>>, <<RealmA>>, <<RealmA, RealmCafe>>, <<RealmCafe, RealmA>>}

DirListings ==
    {[enabled |-> TRUE, all_viewable |-> FALSE], [enabled |-> TRUE, all_viewable |-> TRUE],
     [enabled |-> FALSE, all_viewable |-> FALSE]}

GenConfigs ==
    [file_root : {<<"w">>}, basic_auth : RealmOrders, dir_listing : DirListings]

GenMethods == {"GET", "HEAD", "POST"}

GenRawTargets ==
    {<<"/", "p">>,
     <<"/", "s">>,
     <<"/", "s", "/", "a">>,
     <<"/", "s", "/", "r", "_", "c", "g", "i", ".", "x">>,
     <<"/", "n", "_", "n", "p", "h", "_", "c", "g", "i", ".", "x">>,
     <<"/", "a", "_", "c", "g", "i">>,
     <<"/", "a", "_", "c", "g", "i", "x">>}

\* The values of the Authorization header: the credentials u:p, u:p, v:p,
\* another scheme, no space, no base64, the text up without a colon, the
\* credentials u:q, the byte 255, the credentials x:p.
AuthorizationValues ==
    {<<"B", "a", "s", "i", "c", " ", "d", "T", "p", "w">>,
     <<"b", "a", "s", "i", "c", " ", "d", "T", "p", "w">>,
     <<"B", "A", "S", "I", "C", " ", "d", "j", "p", "w">>,
     <<"B", "e", "a", "r", "e", "r", " ", "d", "T", "p", "w">>,
     <<"B", "a", "s", "i", "c">>,
     <<"B", "a", "s", "i", "c", " ", "!", "!", "!", "!">>,
     <<"B", "a", "s", "i", "c", " ", "d", "X", "A", "=">>,
     <<"B", "a", "s", "i", "c", " ", "d", "T", "p", "x">>,
     <<"B", "a", "s", "i", "c", " ", "/", "w", "=", "=">>,
     <<"B", "a", "s", "i", "c", " ", "e", "D", "p", "w">>}

GenRequests ==
    {[method |-> m, uri |-> UriParse(m, t).val,
      headers |-> IF a = <<>> THEN NoHeaders ELSE headers_set_one(NoHeaders, "authorization", a)] :
        m \in GenMethods, t \in GenRawTargets, a \in AuthorizationValues \cup {<<>>}}

\* The answers of the file system and of the script: all is well, or one
\* thing is not.
EnvOk ==
    [open |-> "file", meta |-> "ok", listing |-> "viewable", script |-> "success",
     cond |-> "pass", reopen |-> "ok", range |-> "entire"]

GenEnvs ==
    {EnvOk, [EnvOk EXCEPT !.open = "missing"], [EnvOk EXCEPT !.meta = "error"],
     [EnvOk EXCEPT !.reopen = "error"]}
    \cup {[EnvOk EXCEPT !.open = "dir", !.listing = l] :
             l \in {"viewable", "plain", "unreadable", "unreadable_viewable",
                    "viewable_unreadable", "template_error"}}
    \cup {[EnvOk EXCEPT !.script = s] : s \in {"empty", "invalid", "failure"}}
    \cup {[EnvOk EXCEPT !.cond = c] : c \in {"precondition_failed", "not_modified"}}
    \cup {[EnvOk EXCEPT !.range = r] : r \in {"unsatisfiable", "single", "multipart", "failed"}}

GenInit ==
    /\ gen \in {NewGenerator(r, c, e) : r \in GenRequests, c \in GenConfigs, e \in GenEnvs}
    /\ uri_in = Idle /\ uri_out = Idle
    /\ pc = "idle" /\ configs = <<>> /\ cur = Idle /\ output = Idle
    /\ nparsed = 0 /\ written = <<>> /\ last = Idle /\ sub = Idle

GenUnchanged == UNCHANGED <<uri_in, uri_out, pc, configs, cur, output, nparsed, written, last, sub>>

GenCheckAuth == gen.state = "auth" /\ pc = "idle" /\ gen' = CheckAuthStep(gen) /\ GenUnchanged

GenOpenFile == gen.state = "open" /\ pc = "idle" /\ gen' = OpenFileStep(gen) /\ GenUnchanged

GenSetBody == gen.state = "body" /\ pc = "idle" /\ gen' = SetBodyStep(gen) /\ GenUnchanged

GenBuildResponse ==
    gen.state = "build" /\ pc = "idle" /\ gen' = BuildResponseStep(gen) /\ GenUnchanged

GenNext == GenCheckAuth \/ GenOpenFile \/ GenSetBody \/ GenBuildResponse

SpecGen == GenInit /\ [][GenNext]_vars

\* The realms of the configuration with a route that matches the target of
\* the request, and the one of them that the checker considers.
MatchingRealms ==
    {i \in 1..Len(gen.config.basic_auth) :
        RealmMatches(gen.config.basic_auth[i], UriToString(gen.request.uri))}

ConsideredRealm ==
    gen.config.basic_auth[CHOOSE i \in MatchingRealms : \A j \in MatchingRealms : i <= j]

\* The Authorization header of the request is a scheme, a space and the
\* base64 text of user:password, the scheme is basic in any case of letters,
\* and a credential of the realm has this user and a hash of this password.
AuthorizationAccepted(realm) ==
    /\ headers_contains(gen.request.headers, "authorization")
    /\ LET value == gen.request.headers["authorization"][1]
       IN  \E i \in 1..Len(value) :
              /\ value[i] = " " /\ \A j \in 1..(i - 1) : value[j] # " "
              /\ ToAsciiLowercase(SubSeq(value, 1, i - 1)) = <<"b", "a", "s", "i", "c">>
              /\ base64_decode(SubSeq(value, i + 1, Len(value))).ok
              /\ from_utf8(base64_decode(SubSeq(value, i + 1, Len(value))).val).ok
              /\ LET text == from_utf8(base64_decode(SubSeq(value, i + 1, Len(value))).val).val
                 IN  \E k \in 1..Len(text), c \in 1..Len(realm.credentials) :
                        /\ text[k] = ":" /\ \A j \in 1..(k - 1) : text[j] # ":"
                        /\ realm.credentials[c].user = SubSeq(text, 1, k - 1)
                        /\ realm.credentials[c].password_hash
                               = bcrypt_hash(SubSeq(text, k + 1, Len(text)))

\* The generator has made its authentication check for a request whose
\* target is in a realm.
AuthChecked == gen.state \in {"open", "body", "build", "done"} /\ MatchingRealms # {}

\* The header value basic realm="R" for the realm named R.
Challenge(realm) ==
    <<"b", "a", "s", "i", "c", " ", "r", "e", "a", "l", "m", "=", "#34">> \o realm \o <<"#34">>

\* C9 (as claimed): for a request whose target matches a route of realm R,
\* R being the realm that the checker considers, the request proceeds only
\* if its Authorization header is accepted for R, and in every other case
\* the output is a 401 response that carries WWW-Authenticate: basic
\* realm="R".
C9_ChallengeNamesRealm ==
    AuthChecked =>
        /\ gen.required_auth => AuthorizationAccepted(ConsideredRealm)
        /\ ~AuthorizationAccepted(ConsideredRealm) =>
              /\ gen.state = "done"
              /\ gen.out.kind = "Response" /\ gen.out.status = 401
              /\ headers_contains(gen.out.headers, "www-authenticate")
              /\ gen.out.headers["www-authenticate"] = <<Challenge(ConsideredRealm.realm)>>

\* The request is for a target in a realm and its Authorization header is
\* accepted for none of the realms that its target is in.
LacksValidCredentials ==
    /\ MatchingRealms # {}
    /\ \A i \in MatchingRealms : ~AuthorizationAccepted(gen.config.basic_auth[i])

\* C10: authentication comes before the target is opened: for a request
\* whose target matches a realm route and that lacks valid credentials, the
\* generator opens no file, renders no directory listing and runs no script,
\* and its output is a 401 response, whether or not the target file exists.
C10_AuthBeforeOpen ==
    (gen.state # "idle" /\ LacksValidCredentials) =>
        /\ gen.opens = 0 /\ gen.listed = 0 /\ gen.scripts = 0
        /\ gen.state \in {"auth", "done"}
        /\ gen.state = "done" => gen.out.kind = "Response" /\ gen.out.status = 401

\* C10 witness: a request without valid credentials for a protected target
\* whose file does not exist was answered with 401, not with 404.
C10_Witness ==
    /\ gen.state = "done" /\ LacksValidCredentials
    /\ gen.env.open = "missing"
    /\ gen.out.status = 401 /\ gen.opens = 0

\* set_body has run for a GET or HEAD request whose target is a directory.
DirSetBodyRan ==
    /\ gen.state \in {"build", "done"}
    /\ gen.env.open = "dir" /\ gen.env.meta = "ok" /\ gen.opens = 1
    /\ gen.request.method \in {"GET", "HEAD"}

\* The directory has an entry named .viewable.
HasViewableEntry ==
    gen.env.listing \in {"viewable", "unreadable_viewable", "viewable_unreadable", "template_error"}

\* A listing body was produced: set_body returned Ok for the directory.
ListingProduced ==
    \/ gen.state = "build"
    \/ gen.state = "done" /\ gen.out.kind = "Response" /\ gen.out.status = 200

GenOutputIsError(status) ==
    gen.state = "done" /\ gen.out.kind = "Error" /\ gen.out.status = status

\* C30 (as claimed): for GET or HEAD on a directory, a listing body is
\* produced only if listing is enabled and the directory has an entry named
\* .viewable or all_viewable is true; with listing disabled the output is
\* NotFound, and with listing enabled, no .viewable entry and all_viewable
\* false the output is Forbidden.
C30_ListingGate ==
    DirSetBodyRan =>
        /\ ListingProduced =>
              /\ gen.config.dir_listing.enabled
              /\ HasViewableEntry \/ gen.config.dir_listing.all_viewable
        /\ ~gen.config.dir_listing.enabled => GenOutputIsError(404)
        /\ (/\ gen.config.dir_listing.enabled
            /\ ~HasViewableEntry /\ ~gen.config.dir_listing.all_viewable)
              => GenOutputIsError(403)

\* C30 (amended): as C30, with Forbidden as the output only for a directory
\* whose entries can be read; a directory whose entries cannot be read is
\* answered with NotFound.
C30_ListingGateForReadableDirs ==
    DirSetBodyRan =>
        /\ ListingProduced =>
              /\ gen.config.dir_listing.enabled
              /\ HasViewableEntry \/ gen.config.dir_listing.all_viewable
        /\ ~gen.config.dir_listing.enabled => GenOutputIsError(404)
        /\ (/\ gen.config.dir_listing.enabled
            /\ ~HasViewableEntry /\ ~gen.config.dir_listing.all_viewable)
              => IF gen.env.listing = "unreadable" THEN GenOutputIsError(404)
                 ELSE GenOutputIsError(403)

\* C30 witness: with listing enabled and all_viewable false, a GET on a
\* readable directory without a .viewable entry was answered with Forbidden.
C30_Witness ==
    /\ DirSetBodyRan /\ gen.request.method = "GET"
    /\ gen.config.dir_listing.enabled /\ ~gen.config.dir_listing.all_viewable
    /\ gen.env.listing = "plain"
    /\ GenOutputIsError(403)

\* set_file_body has run: the target was opened, and it is not a directory
\* asked for with GET or HEAD.
SetFileBodyRan ==
    /\ gen.state \in {"build", "done"}
    /\ gen.env.open # "missing" /\ gen.env.meta = "ok" /\ gen.opens >= 1
    /\ gen.env.open = "dir" => gen.request.method \notin {"GET", "HEAD"}

\* The base name of the target of the request with its extension removed:
\* the last segment of the path up to its last dot, or all of it if it has
\* no dot behind its first character.
BaseNameNoExt ==
    LET path == to_string_no_query(gen.request.uri)
        segments == Split(path, "/")
        name == segments[Len(segments)]
        dots == {i \in 2..Len(name) : name[i] = "."}
    IN  IF dots = {} THEN name
        ELSE SubSeq(name, 1, (CHOOSE i \in dots : \A j \in dots : j <= i) - 1)

\* C37 (as claimed): the response generator runs a target as a CGI script if
\* and only if its base name without the extension ends in _cgi, and treats
\* it as NPH (the bytes of a successful script are the output) if and only
\* if that name ends in _nph_cgi, for targets with and without an extension.
C37_CgiByBaseName ==
    SetFileBodyRan =>
        /\ gen.scripts = 1 <=> EndsWith(BaseNameNoExt, <<"_", "c", "g", "i">>)
        /\ (gen.scripts = 1 /\ gen.env.script = "success") =>
              (gen.out.kind = "Bytes"
                  <=> EndsWith(BaseNameNoExt, <<"_", "n", "p", "h", "_", "c", "g", "i">>))

(***************************************************************************)
(* Specification of one connection: FileServer::handle_conn serving up to  *)
(* MaxRequests requests.                                                   *)
(***************************************************************************)
MaxRequests == 2

LoopConfig ==
    [file_root |-> <<"w">>, basic_auth |-> <<RealmA>>,
     dir_listing |-> [enabled |-> TRUE, all_viewable |-> FALSE]]

\* One server for the host a, or one for the host b before a wildcard server.
ServerLists ==
    {<<[hosts |-> <<<<"a">>>>, config |-> LoopConfig]>>,
     <<[hosts |-> <<<<"b">>>>, config |-> LoopConfig],
       [hosts |-> <<<<"*">>>>, config |-> LoopConfig]>>}

\* The header sections of the requests: a Host, and possibly a Connection
\* and an Authorization header (the empty text stands for an absent header).
LoopHeaders(h, c, a) ==
    LET host == headers_set_one(NoHeaders, "host", h)
        conn == IF c = <<>> THEN host ELSE headers_set_one(host, "connection", c)
    IN  IF a = <<>> THEN conn ELSE headers_set_one(conn, "authorization", a)

GoodWire ==
    [fault |-> "none", expect |-> FALSE, method |-> "GET", target |-> <<"/", "p">>,
     version |-> "HTTP/1.1", headers |-> LoopHeaders(<<"a">>, <<>>, <<>>)]

\* What is asked for: a public target, by GET or by POST, an NPH script, and
\* a target of realm A, without and with the credentials u:p.
LoopResources ==
    {<<"GET", <<"/", "p">>, <<>> >>, <<"POST", <<"/", "p">>, <<>> >>,
     <<"GET", <<"/", "n", "_", "n", "p", "h", "_", "c", "g", "i", ".", "x">>, <<>> >>,
     <<"GET", <<"/", "s", "/", "a">>, <<>> >>,
     <<"GET", <<"/", "s", "/", "a">>, <<"B", "a", "s", "i", "c", " ", "d", "T", "p", "w">>>>}

\* The requests that arrive whole.
WholeWires ==
    {[fault |-> "none", expect |-> e, method |-> r[1], target |-> r[2], version |-> v,
      headers |-> LoopHeaders(h, c, r[3])] :
        e \in BOOLEAN, r \in LoopResources, v \in {"HTTP/0.9", "HTTP/1.0", "HTTP/1.1"},
        h \in {<<"a">>, <<"z">>}, c \in {<<>>, H_CONN_KEEP_ALIVE, H_CONN_CLOSE, <<"u", "p", "g", "r", "a", "d", "e">>}}

\* The requests that meet a fault, and one whose target is not a URI.
FaultyWires ==
    {[GoodWire EXCEPT !.fault = f, !.expect = e] :
        f \in DOMAIN LineFaults \cup DOMAIN LaterFaults \cup {"unknown_version", "broken_continue"},
        e \in BOOLEAN}
    \cup {[GoodWire EXCEPT !.target = <<"/", ".", ".">>]}

LoopEnvs ==
    {EnvOk, [EnvOk EXCEPT !.open = "missing"], [EnvOk EXCEPT !.meta = "error"],
     [EnvOk EXCEPT !.open = "dir", !.listing = "plain"],
     [EnvOk EXCEPT !.cond = "precondition_failed"], [EnvOk EXCEPT !.range = "unsatisfiable"]}

Init ==
    /\ configs \in ServerLists
    /\ pc = "read" /\ cur = Idle /\ output = NoOutput
    /\ nparsed = 0 /\ written = <<>> /\ last = Idle /\ sub = Idle
    /\ gen = Idle /\ uri_in = Idle /\ uri_out = Idle

\* What the loop did with the request it read last.
Decision(req, request, parse_error, matched, out, attempted, io_ok, closed) ==
    [state |-> "decided", req |-> req, parse_error |-> parse_error,
     http_version |-> IF request.some THEN request.val.http_version ELSE "none",
     connection |-> IF request.some THEN headers_get(request.val.headers, "connection")
                    ELSE NoneOpt,
     matched |-> matched, out |-> out,
     attempted |-> attempted, io_ok |-> io_ok, closed |-> closed]

LoopUnchanged == UNCHANGED <<uri_in, uri_out, gen, configs, sub>>

\* The loop condition up to the return of verify_request: a request is read
\* from the connection; the parser writes a 100 Continue if the request
\* expects one.
VerifyRequest ==
    /\ pc = "read"
    /\ \E wire \in WholeWires \cup FaultyWires :
       \E parsed \in {parse_request(wire)} :
       \E verified \in {verify_request(parsed.result)} :
          /\ verified.ok => nparsed < MaxRequests
          /\ written' = written \o [i \in 1..parsed.continues |->
                                       [req |-> nparsed + 1, kind |-> "continue"]]
          /\ IF verified.ok
             THEN /\ cur' = [state |-> "request", request |-> verified.val, server |-> 0]
                  /\ output' = NoOutput
                  /\ nparsed' = nparsed + 1
                  /\ pc' = "route"
             ELSE /\ cur' = [state |-> "rejected", error |-> parsed.result.err]
                  /\ output' = verified.err
                  /\ nparsed' = nparsed
                  /\ pc' = "reject"
    /\ last' = Idle
    /\ LoopUnchanged

\* The Err arm of the loop condition: the output of the verifier is processed.
RejectRequest ==
    /\ pc = "reject"
    /\ \E io_ok \in BOOLEAN :
          LET done == process(output, io_ok)
          IN  /\ written' = IF done.message.some /\ io_ok
                            THEN Append(written, [req |-> nparsed + 1, kind |-> "final"])
                            ELSE written
              /\ pc' = IF done.close THEN "closed" ELSE "next"
              /\ nparsed' = nparsed
              /\ last' = Decision(nparsed + 1, NoneOpt, cur.error, FALSE, output,
                                  done.message.some, io_ok, done.close)
    /\ cur' = Idle /\ output' = NoOutput
    /\ LoopUnchanged

\* The Ok arm: the virtual server is looked up by the Host header; without
\* one the value of the loop condition is false and the loop goes on.
SelectVirtualServer ==
    /\ pc = "route"
    /\ LET server == find_virtual_server(configs, cur.request.headers["host"][1])
       IN  IF server = 0
           THEN /\ pc' = "next" /\ cur' = Idle
                /\ last' = Decision(nparsed, Some(cur.request), "none", FALSE, NoOutput, FALSE, TRUE, FALSE)
           ELSE /\ pc' = "generate" /\ cur' = [cur EXCEPT !.server = server]
                /\ last' = last
    /\ UNCHANGED <<output, nparsed, written>>
    /\ LoopUnchanged

\* ResponseGenerator::new(..).get_response() for the selected server.
GenerateResponse ==
    /\ pc = "generate"
    /\ \E env \in LoopEnvs :
          output' = get_response(NewGenerator(cur.request, configs[cur.server].config, env)).out
    /\ pc' = "decide"
    /\ UNCHANGED <<cur, nparsed, written, last>>
    /\ LoopUnchanged

\* The left operand of the disjunction: the client intends to close, and the
\* right operand, which sends the response, is not evaluated.
CloseWithoutSending ==
    /\ pc = "decide"
    /\ client_intends_to_close(cur.request)
    /\ pc' = "closed"
    /\ last' = Decision(nparsed, Some(cur.request), "none", TRUE, output, FALSE, TRUE, TRUE)
    /\ cur' = Idle /\ output' = NoOutput
    /\ UNCHANGED <<nparsed, written>>
    /\ LoopUnchanged

\* The right operand: the output of the generator is processed.
SendResponse ==
    /\ pc = "decide"
    /\ ~client_intends_to_close(cur.request)
    /\ \E io_ok \in BOOLEAN :
          LET done == process(output, io_ok)
          IN  /\ written' = IF done.message.some /\ io_ok
                            THEN Append(written, [req |-> nparsed, kind |-> "final"])
                            ELSE written
              /\ pc' = IF done.close THEN "closed" ELSE "next"
              /\ last' = Decision(nparsed, Some(cur.request), "none", TRUE, output, done.message.some,
                                  io_ok, done.close)
    /\ cur' = Idle /\ output' = NoOutput
    /\ UNCHANGED nparsed
    /\ LoopUnchanged

\* The value of the loop condition is false: the loop body, which is empty,
\* is run and the condition is evaluated again.
NextIteration ==
    /\ pc = "next"
    /\ pc' = "read" /\ last' = Idle
    /\ UNCHANGED <<cur, output, nparsed, written>>
    /\ LoopUnchanged

Next ==
    \/ NextIteration
    \/ VerifyRequest
    \/ RejectRequest
    \/ SelectVirtualServer
    \/ GenerateResponse
    \/ CloseWithoutSending
    \/ SendResponse

Spec == Init /\ [][Next]_vars

(***************************************************************************)
(* Properties of the connection loop.                                      *)
(***************************************************************************)
\* The final responses written so far, in the order of their writing.
FinalResponses == SelectSeq(written, LAMBDA w : w.kind = "final")

\* The loop has decided about a parsed request for which a virtual server
\* was found and the generator produced a message.
Generated ==
    /\ last.state = "decided" /\ last.parse_error = "none"
    /\ last.matched /\ last.out.kind # "Terminate"

\* The loop has decided about a request that the parser rejected.
Rejected == last.state = "decided" /\ last.parse_error # "none"

\* C1: for every parsed request whose Host selects a virtual server, the
\* message of the response generator is written to the connection before the
\* connection is closed, also for Connection: close and for HTTP/1.0 or
\* HTTP/0.9 without keep-alive: no such connection is closed unanswered.
C1_ResponseSentBeforeClose ==
    (Generated /\ last.closed) => last.attempted

\* C2: once the generator has produced the response to a request, the loop
\* closes the connection if and only if the request has Connection: close,
\* or its version is below HTTP/1.1 and it has no Connection: keep-alive, or
\* sending the response failed; otherwise it reads the next request.
C2_CloseExactlyWhenDocumented ==
    Generated =>
        /\ last.closed <=>
              \/ last.connection.some /\ last.connection.val[1] = H_CONN_CLOSE
              \/ /\ last.http_version # "HTTP/1.1"
                 /\ ~(last.connection.some /\ last.connection.val[1] = H_CONN_KEEP_ALIVE)
              \/ last.attempted /\ ~last.io_ok
        /\ pc = (IF last.closed THEN "closed" ELSE "next")

\* C3: a parsed request whose Host matches no virtual server closes the
\* connection: no further request is read from it.
C3_UnmatchedHostCloses ==
    (last.state = "decided" /\ last.parse_error = "none" /\ ~last.matched) =>
        last.closed /\ pc = "closed"

\* C4: after any parser error at most one status response is written, none
\* for EndOfStream, and the loop ends, so that no further request is read.
C4_ParserErrorCloses ==
    Rejected =>
        /\ last.closed /\ pc = "closed" /\ ~ENABLED VerifyRequest
        /\ Cardinality({i \in 1..Len(written) :
                           written[i].req = last.req /\ written[i].kind = "final"}) <= 1
        /\ last.parse_error = "EndOfStream" =>
              ~\E i \in 1..Len(written) : written[i].req = last.req /\ written[i].kind = "final"

\* C4 witness: a request with an invalid header that came after an accepted
\* Expect header was answered with one status response and the loop ended.
C4_Witness ==
    /\ Rejected /\ last.parse_error = "InvalidHeader"
    /\ last.attempted /\ last.io_ok /\ pc = "closed"
    /\ Len(written) = 2
    /\ written[1] = [req |-> last.req, kind |-> "continue"]
    /\ written[2] = [req |-> last.req, kind |-> "final"]

\* C5: when the generator yields 404, 401, 403, 412, 416 or 405 for an
\* HTTP/1.1 request without Connection: close and the response is written
\* without I/O error, the connection stays open and the next request is read.
C5_LogicErrorsKeepOpen ==
    (/\ Generated
     /\ last.out.status \in {404, 401, 403, 412, 416, 405}
     /\ last.http_version = "HTTP/1.1"
     /\ ~(last.connection.some /\ last.connection.val[1] = H_CONN_CLOSE)
     /\ last.attempted /\ last.io_ok) =>
        ~last.closed /\ pc = "next" /\ ENABLED NextIteration

\* C5 witness: the first request, an HTTP/1.1 request without a Connection
\* header for a file that does not exist, was answered with 404 and the
\* connection was kept for the next request.
C5_Witness ==
    /\ Generated /\ last.out.kind = "Error" /\ last.out.status = 404
    /\ last.http_version = "HTTP/1.1" /\ ~last.connection.some
    /\ last.attempted /\ last.io_ok
    /\ ~last.closed /\ pc = "next"
    /\ written = <<[req |-> 1, kind |-> "final"]>>

\* C6: responses are written in the order of the requests: the k-th final
\* response of a connection answers the k-th request parsed on it.
C6_ResponsesInRequestOrder ==
    \A k \in 1..Len(FinalResponses) : FinalResponses[k].req = k

\* C7: the verifier maps every parser error to the documented outcome: 414,
\* 505, 431, 417, 501, 413 and 408 for the errors that have a status of their
\* own, 400 for UnsupportedMethod, InvalidUri, InvalidHeader, NoHostHeader
\* and InvalidBody; EndOfStream writes nothing and closes the connection.
C7_VerifierMapsErrors ==
    LET DocumentedStatus(err) ==
            CASE err = "UriTooLong" -> 414
              [] err = "UnsupportedVersion" -> 505
              [] err = "HeaderTooLong" -> 431
              [] err = "InvalidExpectHeader" -> 417
              [] err = "UnsupportedTransferEncoding" -> 501
              [] err = "BodyTooLarge" -> 413
              [] err = "TimedOut" -> 408
              [] err \in {"UnsupportedMethod", "InvalidUri", "InvalidHeader",
                          "NoHostHeader", "InvalidBody"} -> 400
              [] OTHER -> 0
    IN  Rejected =>
            /\ DocumentedStatus(last.parse_error) # 0 =>
                  /\ last.out.kind = "Status"
                  /\ last.out.status = DocumentedStatus(last.parse_error)
                  /\ last.attempted
            /\ last.parse_error = "EndOfStream" =>
                  /\ last.out = Terminate /\ ~last.attempted /\ last.closed
                  /\ ~\E i \in 1..Len(written) : written[i].req = last.req

\* C7 witness: a request with a too long target was answered with 414, which
\* is the last message written on the connection.
C7_Witness ==
    /\ Rejected /\ last.attempted /\ last.io_ok
    /\ last.parse_error = "UriTooLong" /\ last.out.status = 414
    /\ written[Len(written)] = [req |-> last.req, kind |-> "final"]

(***************************************************************************)
(* The message parser read by read (http/parser.rs).  A read is what the   *)
(* connection gives to one call of the reader: how the call ends (io: ok,  *)
(* timeout, eof or error) and the bytes that it has put into the buffer.   *)
(***************************************************************************)
MAX_GET_BODY_LENGTH == 4194304
MAX_OTHER_BODY_LENGTH == 536870912

\* str::trim_matches(chars)
TrimMatches(s, chars) ==
    LET kept == {i \in 1..Len(s) : s[i] \notin chars}
    IN  IF kept = {} THEN <<>>
        ELSE SubSeq(s, CHOOSE i \in kept : \A j \in kept : i <= j,
                       CHOOSE i \in kept : \A j \in kept : j <= i)

\* The value of the digits of s in the radix, most significant digit first.
RECURSIVE RadixValue(_, _, _)
RadixValue(s, radix, acc) ==
    IF s = <<>> THEN acc ELSE RadixValue(Tail(s), radix, radix * acc + HexDigit(Head(s)))

\* str::parse::<usize> and usize::from_str_radix: an optional plus sign and
\* at least one digit of the radix (the texts parsed here stay far below
\* usize::MAX, so that the overflow error is out of reach).
ParseUsize(s, radix) ==
    LET digits == IF s # <<>> /\ s[1] = "+" THEN Tail(s) ELSE s
    IN  IF digits = <<>> \/ \E i \in 1..Len(digits) : HexDigit(digits[i]) \notin 0..(radix - 1)
        THEN NoneOpt
        ELSE Some(RadixValue(digits, radix, 0))

\* with_timeout on a read that ends as io says.
with_timeout(io) ==
    IF io \in {"ok", "eof"} THEN Ok(io) ELSE IF io = "timeout" THEN Err("TimedOut") ELSE Err("Unknown")

\* MessageParser::read_until_space
read_until_space(read) == IF read.bytes = <<>> THEN Err("EndOfStream") ELSE with_timeout(read.io)

\* The bytes of a method with the space after it.
MethodBytes(m) ==
    CASE m = "GET" -> <<"G", "E", "T", " ">> [] m = "HEAD" -> <<"H", "E", "A", "D", " ">>
      [] m = "POST" -> <<"P", "O", "S", "T", " ">> [] m = "PUT" -> <<"P", "U", "T", " ">>
      [] m = "DELETE" -> <<"D", "E", "L", "E", "T", "E", " ">>
      [] m = "CONNECT" -> <<"C", "O", "N", "N", "E", "C", "T", " ">>
      [] m = "OPTIONS" -> <<"O", "P", "T", "I", "O", "N", "S", " ">>
      [] m = "TRACE" -> <<"T", "R", "A", "C", "E", " ">>

\* MessageParser::parse_request_line: the method, the URI and the version
\* (a version stands for its line), or the error.
parse_request_line(inp) ==
    LET methods == {"GET", "HEAD", "POST", "PUT", "DELETE", "CONNECT", "OPTIONS", "TRACE"}
        named == {m \in methods : inp.first.bytes = MethodBytes(m)}
        first == read_until_space(inp.first)
        target == read_until_space(inp.target)
        version == with_timeout(inp.version.io)
    IN  IF ~first.ok THEN first
        ELSE IF named = {} THEN Err("UnsupportedMethod")
        ELSE IF ~target.ok THEN target
        ELSE CHOOSE r \in
                 {IF ~uri.ok THEN uri
                  ELSE IF ~version.ok THEN version
                  ELSE IF inp.version.bytes \notin {"HTTP/0.9", "HTTP/1.0", "HTTP/1.1"}
                  THEN Err("UnsupportedVersion")
                  ELSE Ok([method |-> CHOOSE m \in named : TRUE, uri |-> uri.val,
                           http_version |-> inp.version.bytes]) :
                    uri \in {UriParse(CHOOSE m \in named : TRUE,
                                      SubSeq(inp.target.bytes, 1, Len(inp.target.bytes) - 1))}} : TRUE

MULTI_VALUE_HEADER_NAMES ==
    {"accept", "accept-charset", "accept-encoding", "accept-language", "cache-control",
     "te", "transfer-encoding", "upgrade", "via"}

\* A parse_header that answers every Expect header with 100 Continue before
\* it looks at its value.
parse_header_continuing_first(headers, line) ==
    LET header_value == TrimMatches(line.value, OPTIONAL_WHITESPACE)
        pieces == Split(header_value, ",")
        header_values == IF line.name \in MULTI_VALUE_HEADER_NAMES
                         THEN [i \in 1..Len(pieces) |-> TrimMatches(pieces[i], OPTIONAL_WHITESPACE)]
                         ELSE <<header_value>>
    IN  IF \E i \in 1..Len(header_values) : ~is_valid_header_value(header_values[i])
        THEN [result |-> Err("InvalidHeader"), continue |-> FALSE]
        ELSE IF line.name = "expect" /\ header_value # <<"1", "0", "0", "-", "c", "o", "n", "t", "i", "n", "u", "e">>
        THEN [result |-> Err("InvalidExpectHeader"), continue |-> TRUE]
        ELSE [result |-> Ok(headers_set(headers, line.name, header_values)),
              continue |-> line.name = "expect"]

\* MessageParser::parse_header on a line with a colon: the headers after it
\* or the error, and whether a 100 Continue was written.
parse_header(headers, line) ==
    LET header_value == TrimMatches(line.value, OPTIONAL_WHITESPACE)
        pieces == Split(header_value, ",")
        header_values == IF line.name \in MULTI_VALUE_HEADER_NAMES
                         THEN [i \in 1..Len(pieces) |-> TrimMatches(pieces[i], OPTIONAL_WHITESPACE)]
                         ELSE <<header_value>>
    IN  IF \E i \in 1..Len(header_values) : ~is_valid_header_value(header_values[i])
        THEN [result |-> Err("InvalidHeader"), continue |-> FALSE]
        ELSE IF line.name = "expect" /\ header_value # <<"1", "0", "0", "-", "c", "o", "n", "t", "i", "n", "u", "e">>
        THEN [result |-> Err("InvalidExpectHeader"), continue |-> FALSE]
        ELSE [result |-> Ok(headers_set(headers, line.name, header_values)),
              continue |-> line.name = "expect"]

\* One round of the loop of MessageParser::parse_headers: on the line read.
parse_headers_line(headers, line) ==
    IF ~with_timeout(line.io).ok THEN [result |-> with_timeout(line.io), continue |-> FALSE]
    ELSE IF line.long THEN [result |-> Err("HeaderTooLong"), continue |-> FALSE]
    ELSE IF ~line.colon THEN [result |-> Err("InvalidHeader"), continue |-> FALSE]
    ELSE parse_header(headers, line)

\* MessageParser::parse_chunked_body on the chunk size lines that arrive,
\* each followed by its data and a line end: the length of the body.  The
\* trailer after the last chunk is empty.
RECURSIVE parse_chunked_body(_, _, _)
parse_chunked_body(chunks, io, body) ==
    IF chunks = <<>>
    THEN (IF with_timeout(io).ok THEN Err("InvalidBody") ELSE with_timeout(io))
    ELSE LET chunk_size == ParseUsize(Split(Head(chunks), ";")[1], 16)
         IN  IF ~chunk_size.some THEN Err("Unknown")
             ELSE IF chunk_size.val = 0 THEN Ok(Some(body))
             ELSE parse_chunked_body(Tail(chunks), io, body + chunk_size.val)

\* MessageParser::parse_body: the length of the body that was read, if the
\* request has one, or the error.
parse_body(method, headers, body) ==
    IF headers_contains(headers, "transfer-encoding")
    THEN IF \E i \in 1..Len(headers["transfer-encoding"]) :
               headers["transfer-encoding"][i] # <<"c", "h", "u", "n", "k", "e", "d">>
         THEN Err("UnsupportedTransferEncoding")
         ELSE parse_chunked_body(body.chunks, body.io, 0)
    ELSE IF headers_contains(headers, "content-length")
    THEN LET length == ParseUsize(headers["content-length"][1], 10)
         IN  IF ~length.some THEN Err("InvalidBody")
             ELSE IF (method = "GET" /\ length.val > MAX_GET_BODY_LENGTH)
                        \/ length.val > MAX_OTHER_BODY_LENGTH
             THEN Err("BodyTooLarge")
             ELSE IF ~with_timeout(body.io).ok THEN with_timeout(body.io)
             ELSE IF body.io = "eof" THEN Err("Unknown")
             ELSE Ok(length)
    ELSE Ok(NoneOpt)

\* C28 (as claimed): after the output of an NPH script was written to the
\* connection, the connection is closed, so that no further request is read
\* from it.
C28_NphResponseClosesConnection ==
    (Generated /\ last.out.kind = "Bytes" /\ last.attempted /\ last.io_ok) => last.closed

(***************************************************************************)
(* Specification of the message parser: MessageParser::parse_request on    *)
(* one request, read by read.                                              *)
(***************************************************************************)
ReadOk(bytes) == [io |-> "ok", bytes |-> bytes]

HeaderLine(name, value) ==
    [io |-> "ok", long |-> FALSE, colon |-> TRUE, name |-> name, value |-> value]

\* The header lines that a request is made of: Expect with the value
\* 100-continue, with another value and with a value that no header may
\* have; Content-Length at and beyond the limits; Transfer-Encoding; a line
\* without a colon, a line that is too long and a line that does not arrive.
HeaderLines ==
    {HeaderLine("expect", <<" ", "1", "0", "0", "-", "c", "o", "n", "t", "i", "n", "u", "e">>),
     HeaderLine("expect", <<" ", "1", "0", "0", "-", "C", "o", "n", "t", "i", "n", "u", "e">>),
     HeaderLine("expect", <<" ", "#233">>),
     HeaderLine("content-length", <<" ">> \o DecimalChars(MAX_GET_BODY_LENGTH)),
     HeaderLine("content-length", <<" ">> \o DecimalChars(MAX_GET_BODY_LENGTH + 1)),
     HeaderLine("content-length", <<" ">> \o DecimalChars(MAX_OTHER_BODY_LENGTH + 1)),
     HeaderLine("content-length", <<" ", "x">>),
     HeaderLine("transfer-encoding", <<" ", "c", "h", "u", "n", "k", "e", "d">>),
     HeaderLine("transfer-encoding", <<" ", "g", "z", "i", "p", ",", " ", "c", "h", "u", "n", "k", "e", "d">>),
     [HeaderLine("x", <<>>) EXCEPT !.colon = FALSE],
     [HeaderLine("x", <<>>) EXCEPT !.long = TRUE],
     [HeaderLine("x", <<>>) EXCEPT !.io = "timeout"]}

\* What arrives after the header block: the chunk size lines of a chunked
\* body, and how the read after them ends (the read of the whole body, if
\* the body is delimited by its length).
BodyInputs ==
    {[chunks |-> c, io |-> "ok"] :
        c \in {<<>>, <<<<"0">>>>, <<<<"4", "0", "0", "0", "0", "0">>, <<"0">>>>, <<<<"4", "0", "0", "0", "0", "1">>, <<"0">>>>,
               <<<<"2", "0", "0", "0", "0", "0", "0", "0">>, <<"0">>>>, <<<<"2", "0", "0", "0", "0", "0", "0", "1">>, <<"0">>>>,
               <<<<"4", "0", "0", "0", "0", "0">>, <<"1", ";", "x">>, <<"0">>>>, <<<<"z">>>>}}
    \cup {[chunks |-> <<>>, io |-> i] : i \in {"timeout", "eof", "error"}}
    \cup {[chunks |-> <<<<"5">>>>, io |-> "timeout"]}

GoodLine ==
    [first |-> ReadOk(MethodBytes("GET")), target |-> ReadOk(<<"/", "p", " ">>),
     version |-> ReadOk("HTTP/1.1"), lines |-> <<>>, body |-> [chunks |-> <<>>, io |-> "ok"]]

\* Requests whose request line meets a fault: a read that times out, ends
\* or fails with nothing or with a part of the text read, an unknown method,
\* a target that is no URI, an unknown version.
FaultyLines ==
    {[GoodLine EXCEPT !.first = r] :
        r \in {[io |-> i, bytes |-> b] : i \in {"timeout", "eof", "error"}, b \in {<<>>, <<"G", "E">>}}
               \cup {ReadOk(<<"F", "O", "O", " ">>)}}
    \cup {[GoodLine EXCEPT !.target = r] :
        r \in {[io |-> i, bytes |-> b] : i \in {"timeout", "eof"}, b \in {<<>>, <<"/", "p">>}}
               \cup {ReadOk(<<"/", ".", ".", " ">>)}}
    \cup {[GoodLine EXCEPT !.version = r] :
        r \in {[io |-> "timeout", bytes |-> "HTTP/1.1"], [io |-> "error", bytes |-> "HTTP/1.1"],
               ReadOk("HTTP/2.0"), ReadOk("HTTP/1.0")}}

ParseInputs ==
    FaultyLines
    \cup {[GoodLine EXCEPT !.first = ReadOk(MethodBytes(m)), !.lines = l \o h, !.body = b] :
            m \in {"GET", "POST"},
            l \in {<<>>} \cup {<<x>> : x \in HeaderLines} \cup {<<x, y>> : x, y \in HeaderLines},
            h \in {<<>>, <<HeaderLine("host", <<" ", "a">>)>>},
            b \in BodyInputs}

ParseInit ==
    /\ sub \in {[state |-> "line", step |-> "none", inp |-> i, pos |-> 1, ios |-> {}, events |-> <<>>,
                 line |-> Idle, headers |-> NoHeaders, result |-> Idle] : i \in ParseInputs}
    /\ uri_in = Idle /\ uri_out = Idle /\ gen = Idle
    /\ pc = "idle" /\ configs = <<>> /\ cur = Idle /\ output = Idle
    /\ nparsed = 0 /\ written = <<>> /\ last = Idle

ParseUnchanged ==
    UNCHANGED <<uri_in, uri_out, gen, pc, configs, cur, output, nparsed, written, last>>

\* parse_request_line; ios collects how the reads that were made ended.
ParseRequestLine ==
    /\ sub.state = "line"
    /\ \E line \in {parse_request_line(sub.inp)} :
          sub' = [sub EXCEPT
                    !.state = IF line.ok THEN "headers" ELSE "done",
                    !.step = "line",
                    !.line = line,
                    !.result = IF line.ok THEN Idle ELSE line,
                    !.ios = {sub.inp.first.io}
                            \cup (IF read_until_space(sub.inp.first).ok
                                     /\ line # Err("UnsupportedMethod")
                                  THEN {sub.inp.target.io} ELSE {})
                            \cup (IF line.ok \/ line = Err("UnsupportedVersion")
                                     \/ (/\ read_until_space(sub.inp.first).ok
                                         /\ read_until_space(sub.inp.target).ok
                                         /\ line \in {Err("TimedOut"), Err("Unknown")})
                                  THEN {sub.inp.version.io} ELSE {})]
    /\ ParseUnchanged

\* One round of the loop of parse_headers on a header line.
ParseHeaderLine ==
    /\ sub.state = "headers" /\ sub.pos <= Len(sub.inp.lines)
    /\ \E r \in {parse_headers_line(sub.headers, sub.inp.lines[sub.pos])} :
          sub' = [sub EXCEPT
                    !.state = IF r.result.ok THEN "headers" ELSE "done",
                    !.step = "header",
                    !.pos = @ + 1,
                    !.ios = @ \cup {sub.inp.lines[sub.pos].io},
                    !.events = IF r.continue THEN Append(@, "continue") ELSE @,
                    !.headers = IF r.result.ok THEN r.result.val ELSE @,
                    !.result = IF r.result.ok THEN Idle ELSE r.result]
    /\ ParseUnchanged

\* The empty line ends the header block: parse_headers returns, with an
\* error if there is no Host header, and parse_body reads the body.
ParseBody ==
    /\ sub.state = "headers" /\ sub.pos > Len(sub.inp.lines)
    /\ IF ~headers_contains(sub.headers, "host")
       THEN sub' = [sub EXCEPT !.state = "done", !.step = "body", !.result = Err("NoHostHeader")]
       ELSE \E body \in {parse_body(sub.line.val.method, sub.headers, sub.inp.body)} :
               sub' = [sub EXCEPT
                         !.state = "done", !.step = "body",
                         !.ios = IF headers_contains(sub.headers, "transfer-encoding")
                                    \/ ~headers_contains(sub.headers, "content-length")
                                    \/ (~body.ok /\ body.err \in {"InvalidBody", "BodyTooLarge"})
                                 THEN @ ELSE @ \cup {sub.inp.body.io},
                         !.events = IF body.ok /\ body.val.some THEN Append(@, "body") ELSE @,
                         !.result = IF ~body.ok THEN body
                                    ELSE Ok([method |-> sub.line.val.method,
                                             uri |-> sub.line.val.uri,
                                             http_version |-> sub.line.val.http_version,
                                             headers |-> sub.headers, body |-> body.val])]
    /\ ParseUnchanged

ParseNext == ParseRequestLine \/ ParseHeaderLine \/ ParseBody

SpecParse == ParseInit /\ [][ParseNext]_vars

(***************************************************************************)
(* Properties of the message parser.                                       *)
(***************************************************************************)
\* C11: every request that the parser returns has a body of at most 4 MiB
\* if its method is GET and of at most 512 MiB otherwise, whether the body
\* was delimited by Content-Length or chunked; a larger one is refused.
C11_BodyWithinLimits ==
    (sub.state = "done" /\ sub.step = "body" /\ sub.result.ok /\ sub.result.val.body.some) =>
        sub.result.val.body.val <= (IF sub.result.val.method = "GET"
                                    THEN MAX_GET_BODY_LENGTH ELSE MAX_OTHER_BODY_LENGTH)

\* The parser has just read a well-formed Expect header line.
ExpectRead ==
    /\ sub.state \in {"headers", "done"} /\ sub.step = "header"
    /\ sub.inp.lines[sub.pos - 1].name = "expect"

\* The value of the Expect header that was just read.
ExpectValue == TrimMatches(sub.inp.lines[sub.pos - 1].value, OPTIONAL_WHITESPACE)

\* The number of 100 Continue responses written while the header block
\* was read, and the number of Expect: 100-continue lines read before the
\* one that was just read.
ContinuesWritten == Cardinality({i \in 1..Len(sub.events) : sub.events[i] = "continue"})
ContinuesExpectedBefore ==
    Cardinality({i \in 1..(sub.pos - 2) :
                    sub.inp.lines[i] = HeaderLine("expect", <<" ">> \o
                        <<"1", "0", "0", "-", "c", "o", "n", "t", "i", "n", "u", "e">>)})

\* The 100 Continue was written at once: it is the last thing that happened
\* on the connection, and no byte of the body was read before it.
ContinueWrittenAtOnce ==
    /\ sub.state = "headers"
    /\ ContinuesWritten = ContinuesExpectedBefore + 1
    /\ sub.events # <<>> /\ sub.events[Len(sub.events)] = "continue"
    /\ \A i \in 1..Len(sub.events) : sub.events[i] # "body"

\* C12 as claimed: reading an Expect header with the value 100-continue
\* writes a 100 Continue at once, before any byte of the body is read; an
\* Expect header with any other value fails with InvalidExpectHeader and no
\* 100 Continue is written for it.
C12_ExpectAnswered ==
    ExpectRead =>
        IF ExpectValue = <<"1", "0", "0", "-", "c", "o", "n", "t", "i", "n", "u", "e">>
        THEN ContinueWrittenAtOnce
        ELSE /\ sub.state = "done" /\ sub.result = Err("InvalidExpectHeader")
             /\ ContinuesWritten = ContinuesExpectedBefore

\* C12 as amended: reading an Expect header with the value 100-continue
\* writes a 100 Continue at once, before any byte of the body is read; an
\* Expect header with any other value fails, with InvalidExpectHeader if the
\* value is made of the characters that a header value may have and with
\* InvalidHeader if it is not, and no 100 Continue is written for it.
C12_ExpectAnsweredOrRefused ==
    ExpectRead =>
        IF ExpectValue = <<"1", "0", "0", "-", "c", "o", "n", "t", "i", "n", "u", "e">>
        THEN ContinueWrittenAtOnce
        ELSE /\ sub.state = "done"
             /\ sub.result = (IF is_valid_header_value(ExpectValue)
                              THEN Err("InvalidExpectHeader") ELSE Err("InvalidHeader"))
             /\ ContinuesWritten = ContinuesExpectedBefore

\* C12 witness: the second of two Expect headers, one with the value
\* 100-continue and one with another value, was refused after one 100
\* Continue had been written.
C12_Witness ==
    /\ ExpectRead /\ sub.pos = 3
    /\ sub.inp.lines[1].name = "expect" /\ sub.events = <<"continue">>
    /\ sub.result = Err("InvalidExpectHeader")

\* C13: whenever a read times out while a request is parsed, also the read
\* that waits for the first byte of a request, the parser reports TimedOut,
\* which the verifier turns into a 408 response that closes the connection.
C13_TimeoutGives408 ==
    (sub.state = "done" /\ sub.step \in {"line", "header", "body"} /\ "timeout" \in sub.ios) =>
        /\ sub.result = Err("TimedOut")
        /\ verify_request(sub.result) = Err(OutStatus(408, TRUE))

\* The values that a header line carries: its text between the optional
\* whitespace, cut at the commas if the header is one with a list of values.
LineValues(line) ==
    LET text == TrimMatches(line.value, OPTIONAL_WHITESPACE)
        pieces == Split(text, ",")
    IN  IF line.name \in MULTI_VALUE_HEADER_NAMES
        THEN [i \in 1..Len(pieces) |-> TrimMatches(pieces[i], OPTIONAL_WHITESPACE)]
        ELSE <<text>>

\* The values of the lines named name, in the order of the lines.
RECURSIVE ReceivedValues(_, _)
ReceivedValues(lines, name) ==
    IF lines = <<>> THEN <<>>
    ELSE (IF Head(lines).name = name THEN LineValues(Head(lines)) ELSE <<>>)
             \o ReceivedValues(Tail(lines), name)

\* The header lines that were parsed so far, each without an error.
LinesParsed == SubSeq(sub.inp.lines, 1, sub.pos - 1)

\* C31 (as claimed): Headers::set appends, so that after the lines of a
\* header block were parsed, get(name) gives the values of all the lines
\* with that name in the order in which they were received.
C31_SetAppends ==
    sub.state = "headers" =>
        \A i \in 1..Len(LinesParsed) :
            headers_get(sub.headers, LinesParsed[i].name)
                = Some(ReceivedValues(LinesParsed, LinesParsed[i].name))

\* parse_headers has returned the headers of the request and parse_body has
\* run.
BodyParsed ==
    sub.state = "done" /\ sub.step = "body" /\ headers_contains(sub.headers, "host")

\* The transfer codings that the header lines of the request list.
ListedEncodings == ReceivedValues(sub.inp.lines, "transfer-encoding")

\* C35 (as claimed): for a request with a Transfer-Encoding header, if any
\* listed token is not chunked, also when chunked is listed too, parsing
\* fails with UnsupportedTransferEncoding and no body is read; otherwise the
\* body is read as chunked, whatever a Content-Length header says.
C35_TransferEncodingFraming ==
    (BodyParsed /\ ListedEncodings # <<>>) =>
        IF \E i \in 1..Len(ListedEncodings) :
               ListedEncodings[i] # <<"c", "h", "u", "n", "k", "e", "d">>
        THEN /\ sub.result = Err("UnsupportedTransferEncoding")
             /\ \A e \in 1..Len(sub.events) : sub.events[e] # "body"
        ELSE \E chunked \in {parse_chunked_body(sub.inp.body.chunks, sub.inp.body.io, 0)} :
                IF chunked.ok THEN sub.result.ok /\ sub.result.val.body = chunked.val
                ELSE sub.result = chunked

(***************************************************************************)
(* Specification of the readers of one connection: the BufReader that      *)
(* handle_conn makes for the connection and the BufReader that             *)
(* Request::from makes around it for each request.  A byte is the number   *)
(* of its request and whether it is the last byte of that request.         *)
(***************************************************************************)
MaxPipelined == 3
RequestLength == 3
BufCapacity == 4

\* The bytes of the requests from the k-th on, as the client sends them.
RECURSIVE RequestBytes(_)
RequestBytes(k) ==
    IF k > MaxPipelined THEN <<>>
    ELSE [i \in 1..RequestLength |-> [req |-> k, last |-> i = RequestLength]] \o RequestBytes(k + 1)

ReaderInit ==
    /\ sub = [state |-> "between", socket |-> RequestBytes(1), inner |-> <<>>, outer |-> <<>>,
              request |-> <<>>, parsed |-> <<>>, dropped |-> <<>>]
    /\ uri_in = Idle /\ uri_out = Idle /\ gen = Idle
    /\ pc = "idle" /\ configs = <<>> /\ cur = Idle /\ output = Idle
    /\ nparsed = 0 /\ written = <<>> /\ last = Idle

\* Request::from: a new BufReader, with an empty buffer, around the reader
\* of the connection.
RequestFrom ==
    /\ sub.state = "between" /\ Len(sub.parsed) < MaxPipelined
    /\ sub' = [sub EXCEPT !.state = "parsing", !.outer = <<>>, !.request = <<>>]
    /\ ParseUnchanged

\* The parser needs a byte and the buffer of its BufReader is empty: it
\* reads, into its whole buffer, from the reader of the connection, which
\* hands out what it has buffered or, having nothing buffered and being
\* asked for at least its capacity, reads from the socket straight into the
\* buffer of the caller.  The socket gives n bytes of those that arrived.
FillBuf ==
    /\ sub.state = "parsing" /\ sub.outer = <<>>
    /\ IF sub.inner # <<>>
       THEN sub' = [sub EXCEPT !.outer = sub.inner, !.inner = <<>>]
       ELSE \E n \in 1..BufCapacity :
               /\ n <= Len(sub.socket)
               /\ sub' = [sub EXCEPT !.outer = SubSeq(sub.socket, 1, n),
                                     !.socket = SubSeq(sub.socket, n + 1, Len(sub.socket))]
    /\ ParseUnchanged

\* The parser takes the next byte from the buffer of its BufReader; after
\* the last byte of the request parse returns and the BufReader is dropped
\* with what is left in its buffer.
TakeByte ==
    /\ sub.state = "parsing" /\ sub.outer # <<>>
    /\ IF Head(sub.outer).last
       THEN sub' = [sub EXCEPT !.state = "between", !.outer = <<>>, !.request = <<>>,
                               !.parsed = Append(@, Append(sub.request, Head(sub.outer))),
                               !.dropped = @ \o Tail(sub.outer)]
       ELSE sub' = [sub EXCEPT !.outer = Tail(@), !.request = Append(@, Head(sub.outer))]
    /\ ParseUnchanged

ReaderNext == RequestFrom \/ FillBuf \/ TakeByte

SpecReader == ReaderInit /\ [][ReaderNext]_vars

\* C14: the reader keeps its buffered state across the requests of one
\* connection: no byte read from the socket beyond the end of a request is
\* lost, and the request parsed after request k starts at the byte that
\* follows request k, also when both arrived in one read of the socket.
C14_NoByteLostBetweenRequests ==
    sub.state \in {"between", "parsing"} =>
        /\ sub.dropped = <<>>
        /\ \A k \in 1..Len(sub.parsed) :
              sub.parsed[k] = SubSeq(RequestBytes(1), (k - 1) * RequestLength + 1, k * RequestLength)

(***************************************************************************)
(* Specification of the accept loop (FileServer::main_loop), the stop      *)
(* signal and the connection tasks that the loop spawns.  A task is at the *)
(* read of a request ("reading"), at the send of a response ("sending") or *)
(* has returned ("closed"); a task that stood somewhere when the process   *)
(* ended is "killed".                                                      *)
(***************************************************************************)
MaxConns == 2

StopInit ==
    /\ sub = [state |-> "serving", main |-> "accepting", signal |-> FALSE,
              conns |-> [c \in 1..MaxConns |-> [state |-> "absent", after_stop |-> "none"]]]
    /\ uri_in = Idle /\ uri_out = Idle /\ gen = Idle
    /\ pc = "idle" /\ configs = <<>> /\ cur = Idle /\ output = Idle
    /\ nparsed = 0 /\ written = <<>> /\ last = Idle

\* main_loop, the branch of select! for a connection: a task is spawned.
Accept ==
    /\ sub.main = "accepting"
    /\ \E c \in 1..MaxConns :
          /\ sub.conns[c].state = "absent"
          /\ sub' = [sub EXCEPT !.conns[c].state = "reading"]
    /\ ParseUnchanged

\* FileServer::stop, called by the signal handler: a message is sent on the
\* stop channel.
Stop ==
    /\ sub.state = "serving" /\ ~sub.signal /\ sub.main = "accepting"
    /\ sub' = [sub EXCEPT !.signal = TRUE]
    /\ ParseUnchanged

\* main_loop, the branch of select! for the stop signal: break.
BreakLoop ==
    /\ sub.state = "serving" /\ sub.main = "accepting" /\ sub.signal
    /\ sub' = [sub EXCEPT !.main = "stopped"]
    /\ ParseUnchanged

\* main_loop has returned: start returns and main returns it, which ends
\* the process and with it every task, wherever it stands.
ReturnFromMain ==
    /\ sub.state = "serving" /\ sub.main = "stopped"
    /\ sub' = [sub EXCEPT
                 !.main = "exited",
                 !.conns = [c \in 1..MaxConns |->
                               IF sub.conns[c].state \in {"reading", "sending"}
                               THEN [state |-> "killed",
                                     after_stop |-> IF sub.conns[c].state = "sending"
                                                    THEN "killed in send" ELSE sub.conns[c].after_stop]
                               ELSE sub.conns[c]]]
    /\ ParseUnchanged

\* handle_conn: the loop condition reads a request (nothing in handle_conn
\* looks at the stop signal).
ConnRead ==
    /\ sub.state = "serving" /\ sub.main # "exited"
    /\ \E c \in 1..MaxConns :
          /\ sub.conns[c].state = "reading"
          /\ sub' = [sub EXCEPT !.conns[c] =
                        [state |-> "sending",
                         after_stop |-> IF sub.main = "stopped" THEN "read" ELSE @.after_stop]]
    /\ ParseUnchanged

\* handle_conn: the response is sent and the loop goes on or ends, as the
\* request and the outcome of the send have it.
ConnSend ==
    /\ sub.state = "serving" /\ sub.main # "exited"
    /\ \E c \in 1..MaxConns, close \in BOOLEAN :
          /\ sub.conns[c].state = "sending"
          /\ sub' = [sub EXCEPT !.conns[c].state = IF close THEN "closed" ELSE "reading"]
    /\ ParseUnchanged

StopNext == Accept \/ Stop \/ BreakLoop \/ ReturnFromMain \/ ConnRead \/ ConnSend

SpecStop == StopInit /\ [][StopNext]_vars

\* C15: a stop signal ends only the accept loop: after it no connection is
\* accepted, and every connection task in flight completes its current send
\* and closes at its next keep-alive decision: none is cut off in a send and
\* none reads another request after the stop.
C15_StopEndsOnlyAcceptLoop ==
    sub.state = "serving" =>
        \A c \in 1..MaxConns : sub.conns[c].after_stop = "none"

(***************************************************************************)
(* The conditional checker (server/middleware/cond_checker.rs).  A time is *)
(* a record of whole seconds and of the nanoseconds beyond them; CondInfo  *)
(* is a record of the ETag and the time of last modification.              *)
(***************************************************************************)
\* util::format_time_rfc2616 on the times of this model: their texts in the
\* format of HTTP, which has no place for the nanoseconds.
HttpDates ==
    [secs \in {1, 2} |->
        IF secs = 1 THEN <<"S", "u", "n", ",", " ", "0", "6", " ", "N", "o", "v", " ", "1", "9", "9", "4", " ", "0", "8", ":", "4", "9", ":", "3", "7", " ", "G", "M", "T">>
        ELSE <<"S", "u", "n", ",", " ", "0", "6", " ", "N", "o", "v", " ", "1", "9", "9", "4", " ", "0", "8", ":", "4", "9", ":", "3", "8", " ", "G", "M", "T">>]

\* util::parse_time_rfc2616, which the checker calls by the name
\* parse_time_imf: the time whose text this is, if it is the text of a time.
parse_time_imf(text) ==
    IF \E secs \in DOMAIN HttpDates : HttpDates[secs] = text
    THEN Some([secs |-> CHOOSE secs \in DOMAIN HttpDates : HttpDates[secs] = text, nanos |-> 0])
    ELSE NoneOpt

\* DateTime: a <= b
TimeLeq(a, b) == a.secs < b.secs \/ (a.secs = b.secs /\ a.nanos <= b.nanos)

\* ConditionalChecker::check_unchanged_headers
check_unchanged_headers(info, headers) ==
    IF headers_contains(headers, "if-match")
    THEN (IF info.etag.some
          THEN headers["if-match"][1] = <<"*">>
                  \/ \E i \in 1..Len(headers["if-match"]) : headers["if-match"][i] = info.etag.val
          ELSE TRUE)
    ELSE IF headers_contains(headers, "if-unmodified-since") /\ info.last_modified.some
    THEN LET since == parse_time_imf(headers["if-unmodified-since"][1])
         IN  IF since.some THEN TimeLeq(info.last_modified.val, since.val) ELSE TRUE
    ELSE TRUE

\* ConditionalChecker::check_changed_headers
check_changed_headers(info, headers) ==
    IF headers_contains(headers, "if-none-match")
    THEN (IF info.etag.some
          THEN headers["if-none-match"][1] # <<"*">>
                  /\ \A i \in 1..Len(headers["if-none-match"]) :
                        headers["if-none-match"][i] # info.etag.val
          ELSE TRUE)
    ELSE IF headers_contains(headers, "if-modified-since") /\ info.last_modified.some
    THEN LET since == parse_time_imf(headers["if-modified-since"][1])
         IN  IF since.some THEN ~TimeLeq(info.last_modified.val, since.val) ELSE TRUE
    ELSE TRUE

\* ConditionalChecker::check_range_header
check_range_header(info, headers) ==
    IF headers_contains(headers, "range") /\ headers_contains(headers, "if-range")
    THEN LET etag_or_date == headers["if-range"][1]
             since == parse_time_imf(etag_or_date)
         IN  IF since.some
             THEN (IF info.last_modified.some THEN info.last_modified.val = since.val ELSE TRUE)
             ELSE IF StartsWith(etag_or_date, <<"#34">>) /\ EndsWith(etag_or_date, <<"#34">>)
             THEN (IF info.etag.some THEN etag_or_date = info.etag.val ELSE TRUE)
             ELSE TRUE
    ELSE TRUE

\* ConditionalChecker::check: the output, if there is one, and the headers
\* of the request after the call.
cond_check(info, headers) ==
    IF ~check_unchanged_headers(info, headers)
    THEN [out |-> OutStatus(412, FALSE), headers |-> headers]
    ELSE IF ~check_changed_headers(info, headers)
    THEN [out |-> OutStatus(304, FALSE), headers |-> headers]
    ELSE [out |-> NoOutput,
          headers |-> IF check_range_header(info, headers) THEN headers
                      ELSE headers_remove(headers, "range")]

(***************************************************************************)
(* Specification of the conditional checker: the conditional headers of a  *)
(* request are parsed line by line and ConditionalChecker::check is called *)
(* with the CondInfo of a file.                                            *)
(***************************************************************************)
\* The lines of a header, or no line if the header is absent.
OptionalHeader(name, values) ==
    {<<>>} \cup {<<HeaderLine(name, <<" ">> \o v)>> : v \in values}

EtagA == <<"#34", "a", "#34">>
EtagB == <<"#34", "b", "#34">>

CondInputs ==
    {[info |-> [etag |-> Some(EtagA), last_modified |-> Some([secs |-> 1, nanos |-> n])],
      lines |-> m \o nm \o r \o ir] :
        n \in {0, 5},
        m \in OptionalHeader("if-match", {EtagB}),
        nm \in OptionalHeader("if-none-match",
                  {EtagA, EtagB, <<"*">>, EtagB \o <<",", " ">> \o EtagA,
                   EtagA \o <<",">> \o EtagB, <<"W", "/">> \o EtagA}),
        r \in OptionalHeader("range", {<<"b", "y", "t", "e", "s", "=", "0", "-", "1">>}),
        ir \in OptionalHeader("if-range",
                  {HttpDates[1], HttpDates[2], EtagA, EtagB, <<"a", "b", "c">>,
                   <<"W", "/">> \o EtagA})}

CondInit ==
    /\ sub \in {[state |-> "cond headers", inp |-> i, pos |-> 1, headers |-> NoHeaders,
                 out |-> NoOutput, after |-> NoHeaders] : i \in CondInputs}
    /\ uri_in = Idle /\ uri_out = Idle /\ gen = Idle
    /\ pc = "idle" /\ configs = <<>> /\ cur = Idle /\ output = Idle
    /\ nparsed = 0 /\ written = <<>> /\ last = Idle

\* parse_header on the next header line of the request.
CondParseHeader ==
    /\ sub.state = "cond headers" /\ sub.pos <= Len(sub.inp.lines)
    /\ sub' = [sub EXCEPT !.pos = @ + 1,
                          !.headers = parse_header(@, sub.inp.lines[sub.pos]).result.val]
    /\ ParseUnchanged

\* ConditionalChecker::new(info, &mut request.headers).check()
CondCheck ==
    /\ sub.state = "cond headers" /\ sub.pos > Len(sub.inp.lines)
    /\ \E r \in {cond_check(sub.inp.info, sub.headers)} :
          sub' = [sub EXCEPT !.state = "cond checked", !.out = r.out, !.after = r.headers]
    /\ ParseUnchanged

CondNext == CondParseHeader \/ CondCheck

SpecCond == CondInit /\ [][CondNext]_vars

\* The entity-tags that the value of a header lists.
ListedTags(value) ==
    {TrimMatches(Split(value, ",")[i], OPTIONAL_WHITESPACE) : i \in 1..Len(Split(value, ","))}

\* The value that the request gives to a header, if it has the header.
RawHeader(name) ==
    IF \E i \in 1..Len(sub.inp.lines) : sub.inp.lines[i].name = name
    THEN Some(TrimMatches((CHOOSE l \in {sub.inp.lines[i] : i \in 1..Len(sub.inp.lines)} :
                               l.name = name).value, OPTIONAL_WHITESPACE))
    ELSE NoneOpt

\* C16: for a resource with a known ETag, a request with If-None-Match (and
\* no other precondition) yields 304 if and only if the header lists * or
\* the ETag of the resource, in any position of its list of entity-tags;
\* without that header the same request is not answered by the checker.
C16_NotModifiedIffListed ==
    (sub.state = "cond checked" /\ RawHeader("if-none-match").some /\ ~RawHeader("if-match").some) =>
        /\ sub.out = OutStatus(304, FALSE)
              <=> ListedTags(RawHeader("if-none-match").val) \cap {<<"*">>, sub.inp.info.etag.val} # {}
        /\ sub.out \in {OutStatus(304, FALSE), NoOutput}
        /\ cond_check(sub.inp.info, headers_remove(sub.headers, "if-none-match")).out = NoOutput

\* C17: with Range and If-Range the Range header is kept only if the value
\* of If-Range is an HTTP-date equal to last_modified or a quoted ETag equal
\* to the ETag of the resource, and is removed for every other value;
\* without Range, If-Range changes nothing.
C17_RangeKeptOnlyIfCurrent ==
    (sub.state = "cond checked" /\ sub.out = NoOutput) =>
        /\ (RawHeader("range").some /\ RawHeader("if-range").some) =>
              (headers_contains(sub.after, "range")
                  <=> \/ /\ parse_time_imf(RawHeader("if-range").val).some
                         /\ parse_time_imf(RawHeader("if-range").val).val
                               = sub.inp.info.last_modified.val
                      \/ RawHeader("if-range").val = sub.inp.info.etag.val)
        /\ ~(RawHeader("range").some /\ RawHeader("if-range").some) => sub.after = sub.headers

(***************************************************************************)
(* The range evaluator (server/middleware/range_parser.rs) and the sending *)
(* of the body of a file.  A usize beyond the numbers of this model is     *)
(* written as the negative number that has the same bits: -d stands for    *)
(* 2^64 - d, which is what a subtraction below zero gives in a build       *)
(* without overflow checks; a build with them panics instead.              *)
(***************************************************************************)
\* consts::READ_CHUNK_SIZE
READ_CHUNK_SIZE == 4096

\* consts::H_MEDIA_MULTIPART_RANGE
H_MEDIA_MULTIPART_RANGE == <<"m", "u", "l", "t", "i", "p", "a", "r", "t", "/", "b", "y", "t", "e", "r", "a", "n", "g", "e", "s">>

\* a - b in usize.
UsizeSub(a, b, wrapping) ==
    IF a - b >= 0 \/ wrapping THEN [panic |-> FALSE, val |-> a - b] ELSE [panic |-> TRUE, val |-> 0]

\* Display for usize; the numeral of 2^64 - d is written 2^64-d.
UsizeChars(v) == IF v >= 0 THEN DecimalChars(v) ELSE <<"2", "^", "6", "4", "-">> \o DecimalChars(0 - v)

\* RangeParser::parse_range: no range, a range or a panic.
parse_range(body_len, range, wrapping) ==
    LET suffix == ParseUsize(Tail(range), 10)
        parts == Split(range, "-")
        low == ParseUsize(parts[1], 10)
        upto == ParseUsize(parts[2], 10)
        valid(r) == IF r.high <= body_len THEN r ELSE [kind |-> "None"]
    IN  IF StartsWith(range, <<"-">>) /\ Len(range) > 1
        THEN (IF ~suffix.some THEN [kind |-> "None"]
              ELSE IF UsizeSub(body_len, suffix.val, wrapping).panic THEN [kind |-> "panic"]
              ELSE valid([kind |-> "Some", low |-> UsizeSub(body_len, suffix.val, wrapping).val,
                          high |-> body_len]))
        ELSE IF Len(parts) # 2 THEN [kind |-> "None"]
        ELSE IF ~low.some THEN [kind |-> "None"]
        ELSE IF parts[2] = <<>> THEN valid([kind |-> "Some", low |-> low.val, high |-> body_len])
        ELSE IF ~upto.some THEN [kind |-> "None"]
        ELSE valid([kind |-> "Some", low |-> low.val, high |-> upto.val + 1])

\* RangeParser::get_content_range
get_content_range(body_len, range) ==
    <<"b", "y", "t", "e", "s", " ">> \o UsizeChars(range.low) \o <<"-">>
        \o UsizeChars(range.high - 1) \o <<"/">> \o UsizeChars(body_len)

\* consts::CRLF
CRLF == <<"#13", "#10">>

\* RangeParser::multipart_range_body, lines 120-132: the parts for the
\* ranges, cut from the bytes that were read.
RECURSIVE MultipartParts(_, _, _, _, _)
MultipartParts(read, body_len, media_type, sep, ranges) ==
    IF ranges = <<>> THEN <<>>
    ELSE <<"-", "-">> \o sep \o CRLF
            \o <<"c", "o", "n", "t", "e", "n", "t", "-", "t", "y", "p", "e", ":", " ">> \o media_type \o CRLF
            \o <<"c", "o", "n", "t", "e", "n", "t", "-", "r", "a", "n", "g", "e", ":", " ">> \o get_content_range(body_len, Head(ranges)) \o CRLF \o CRLF
            \o SubSeq(read, Head(ranges).low + 1, Head(ranges).high) \o CRLF
            \o MultipartParts(read, body_len, media_type, sep, Tail(ranges))

\* RangeParser::multipart_range_body with the media type of get_body.  The
\* bytes of a Bytes body are copied; for a Stream body reserve leaves the
\* vector empty and read_exact reads nothing into it.  Slicing the vector
\* by a range that does not lie within it panics.
multipart_range_body(body, body_len, media_type, sep, ranges) ==
    LET read == IF body.kind = "Bytes" THEN body.bytes ELSE <<>>
    IN  IF \E i \in 1..Len(ranges) :
              ~(0 <= ranges[i].low /\ ranges[i].low <= ranges[i].high /\ ranges[i].high <= Len(read))
        THEN [kind |-> "panic"]
        ELSE [kind |-> "MultipartRange", ranges |-> ranges,
              media_type |-> H_MEDIA_MULTIPART_RANGE \o <<";", " ", "b", "o", "u", "n", "d", "a", "r", "y", "=">> \o sep,
              body |-> MultipartParts(read, body_len, media_type, sep, ranges)
                          \o <<"-", "-">> \o sep \o <<"-", "-">>]

\* RangeParser::get_body after the pieces of the header were parsed.
ranges_body(body_len, pieces) ==
    LET ranges == SelectSeq(pieces, LAMBDA p : p.kind = "Some")
    IN  IF \E i \in 1..Len(pieces) : pieces[i].kind = "panic" THEN [kind |-> "panic"]
        ELSE IF Len(ranges) = 0 THEN [kind |-> "Status", status |-> 416]
        ELSE IF Len(ranges) = 1
        THEN [kind |-> "Range", ranges |-> ranges,
              content_range |-> get_content_range(body_len, ranges[1])]
        ELSE multipart_range_body([kind |-> "Stream"], body_len, <<"t">>, <<"0">>, ranges)

\* RangeParser::get_body
get_body(headers, body_len, wrapping) ==
    IF ~headers_contains(headers, "range") THEN [kind |-> "Entire"]
    ELSE IF Len(headers["range"][1]) < 7
               \/ SubSeq(headers["range"][1], 1, 5) # <<"b", "y", "t", "e", "s">>
    THEN [kind |-> "Entire"]
    ELSE ranges_body(body_len,
            [i \in 1..Len(Split(SubSeq(headers["range"][1], 7, Len(headers["range"][1])), ",")) |->
                parse_range(body_len,
                    Split(SubSeq(headers["range"][1], 7, Len(headers["range"][1])), ",")[i],
                    wrapping)])

\* util::with_chunks, from chunk n on: what became of the call and the
\* number of bytes handed to op, with avail bytes left in the reader.
RECURSIVE ChunkLoop(_, _, _, _, _, _)
ChunkLoop(n, chunk_count, len, avail, sent, chunks) ==
    IF n = chunk_count THEN [result |-> "ok", sent |-> sent, chunks |-> chunks]
    ELSE LET chunk_len == IF n = chunk_count - 1 THEN len % READ_CHUNK_SIZE ELSE READ_CHUNK_SIZE
         IN  IF chunk_len > avail
             THEN [result |-> "UnexpectedEof", sent |-> sent, chunks |-> chunks]
             ELSE ChunkLoop(n + 1, chunk_count, len, avail - chunk_len, sent + chunk_len,
                            Append(chunks, chunk_len))

\* util::with_chunks: how it returns, the number of bytes handed to op and
\* the lengths of the chunks.  A len of 0 makes len - 1 fall below zero; for
\* that and for a len beyond the numbers of this model the count of chunks
\* is more than the reader can supply, and any such count gives the same.
with_chunks(len, avail, wrapping) ==
    IF UsizeSub(len, 1, wrapping).panic THEN [result |-> "panic", sent |-> 0, chunks |-> <<>>]
    ELSE IF len <= 0 THEN ChunkLoop(0, avail \div READ_CHUNK_SIZE + 2, 0, avail, 0, <<>>)
    ELSE ChunkLoop(0, (len - 1) \div READ_CHUNK_SIZE + 1, len, avail, 0, <<>>)

(***************************************************************************)
(* Specification of the range evaluator: ResponseGenerator::set_file_body  *)
(* for a GET of a file that is no script, and the sending of the response. *)
(***************************************************************************)
RangeValues ==
        {<<"b", "y", "t", "e", "s", "=", "0", "-", "4">>,
         <<"b", "y", "t", "e", "s", "=", "5", "-", "3">>,
         <<"b", "y", "t", "e", "s", "=", "5", "-", "4">>,
         <<"b", "y", "t", "e", "s", "=", "-", "0">>,
         <<"b", "y", "t", "e", "s", "=", "-", "3">>,
         <<"b", "y", "t", "e", "s", "=", "-", "2", "0", "0", "0", "0">>,
         <<"b", "y", "t", "e", "s", "=", "0", "-", "4", "0", "9", "5">>,
         <<"b", "y", "t", "e", "s", "=", "4", "-", "4", "0", "9", "9">>,
         <<"b", "y", "t", "e", "s", "=", "0", "-", "8", "1", "9", "1">>,
         <<"b", "y", "t", "e", "s", "=", "1", "-", "9">>,
         <<"b", "y", "t", "e", "s", "=", "9", "-">>,
         <<"b", "y", "t", "e", "s", "=", "0", "-", "4", ",", "x">>,
         <<"b", "y", "t", "e", "s", "=", "x", ",", "0", "-", "4">>,
         <<"b", "y", "t", "e", "s", "=", "0", "-", "1", ",", "3", "-", "4">>,
         <<"b", "y", "t", "e", "s", "=", "x">>,
         <<"b", "y", "t", "e", "s", "=">>,
         <<"b", "y", "t", "e", "s", "X", "0", "-", "1">>,
         <<"i", "t", "e", "m", "s", "=", "0", "-", "1">>,
         <<"b", "y", "t", "e", "s", "=", "2", "0", "0", "0", "0", "-", "2", "0", "0", "0", "1">>,
         <<"b", "y", "t", "e", "s", "=", "0", "-", "4", "0", "9", "6">>,
         <<"b", "y", "t", "e", "s", "=", "0", "-", "0">>,
         <<"b", "y", "t", "e", "s", "=", "4", "0", "9", "6", "-", "8", "1", "9", "1">>}

RangeInputs ==
    {[info |-> [etag |-> Some(EtagA), last_modified |-> Some([secs |-> 1, nanos |-> 0])],
      lines |-> r, body_len |-> l, wrapping |-> w] :
        r \in OptionalHeader("range", RangeValues), l \in {10, 4096, 10000}, w \in BOOLEAN}

RangeInit ==
    /\ sub \in {[state |-> "cond headers", inp |-> i, pos |-> 1, headers |-> NoHeaders,
                 out |-> NoOutput, after |-> NoHeaders, range |-> [kind |-> "none"],
                 status |-> 200, content_range |-> NoneOpt,
                 body |-> [seek |-> 0, len |-> 0],
                 sent |-> [result |-> "none", from |-> 0, count |-> 0]] : i \in RangeInputs}
    /\ uri_in = Idle /\ uri_out = Idle /\ gen = Idle
    /\ pc = "idle" /\ configs = <<>> /\ cur = Idle /\ output = Idle
    /\ nparsed = 0 /\ written = <<>> /\ last = Idle

\* The rest of set_file_body after the conditional check: the file as a
\* Stream body, then set_range_body.
RangedBody(s, range) ==
    IF range.kind = "Entire"
    THEN [s EXCEPT !.state = "body set", !.range = range,
                   !.body = [seek |-> 0, len |-> s.inp.body_len]]
    ELSE IF range.kind = "Range"
    THEN (IF UsizeSub(range.ranges[1].high, range.ranges[1].low, s.inp.wrapping).panic
          THEN [s EXCEPT !.state = "panicked", !.range = range]
          ELSE [s EXCEPT !.state = "body set", !.range = range, !.status = 206,
                         !.content_range = Some(range.content_range),
                         !.body = [seek |-> range.ranges[1].low,
                                   len |-> range.ranges[1].high - range.ranges[1].low]])
    ELSE IF range.kind = "MultipartRange"
    THEN [s EXCEPT !.state = "bytes body set", !.range = range, !.status = 206]
    ELSE IF range.kind = "Status"
    THEN [s EXCEPT !.state = "refused", !.range = range, !.out = OutStatus(range.status, FALSE)]
    ELSE [s EXCEPT !.state = "panicked", !.range = range]

\* ResponseGenerator::set_file_body, lines 179-184.
SetRangeBody ==
    /\ sub.state = "cond checked" /\ sub.out = NoOutput
    /\ \E range \in {get_body(sub.after, sub.inp.body_len, sub.inp.wrapping)} :
          sub' = RangedBody(sub, range)
    /\ ParseUnchanged

\* send for a response with a Stream body: the body is read from the file,
\* which is at the offset body.seek, in chunks and each chunk is written as
\* it is.  A seek beyond the numbers of this model is beyond the file too.
SendStreamBody ==
    /\ sub.state = "body set"
    /\ \E avail \in {IF sub.body.seek < 0 \/ sub.body.seek > sub.inp.body_len THEN 0
                     ELSE sub.inp.body_len - sub.body.seek} :
       \E done \in {with_chunks(sub.body.len, avail, sub.inp.wrapping)} :
          sub' = [sub EXCEPT !.state = IF done.result = "panic" THEN "panicked" ELSE "sent",
                             !.sent = [result |-> done.result, from |-> sub.body.seek,
                                       count |-> done.sent]]
    /\ ParseUnchanged

RangeNext == CondParseHeader \/ CondCheck \/ SetRangeBody \/ SendStreamBody

SpecRange == RangeInit /\ [][RangeNext]_vars

\* The pieces of the list of a Range header value that begins with bytes=,
\* each as parse_range takes it.
RangePieces ==
    LET list == Split(SubSeq(RawHeader("range").val, 7, Len(RawHeader("range").val)), ",")
    IN  [i \in 1..Len(list) |-> parse_range(sub.inp.body_len, list[i], sub.inp.wrapping)]

\* The range evaluator has been called.
RangeEvaluated == sub.range.kind # "none"

\* C18: every range the range evaluator accepts satisfies low < high <= len
\* for the length len of the body, and computing it involves no arithmetic
\* underflow or overflow.
C18_AcceptedRangesWithinBody ==
    RangeEvaluated =>
        /\ sub.range.kind # "panic"
        /\ sub.range.kind \in {"Range", "MultipartRange"} =>
              \A i \in 1..Len(sub.range.ranges) :
                  /\ 0 <= sub.range.ranges[i].low
                  /\ sub.range.ranges[i].low < sub.range.ranges[i].high
                  /\ sub.range.ranges[i].high <= sub.inp.body_len

\* The Range header of the request is bytes=A-B with A <= B < L for the
\* length L of the file.
ValidSingleRange ==
    /\ RawHeader("range").some
    /\ StartsWith(RawHeader("range").val, <<"b", "y", "t", "e", "s", "=">>)
    /\ Len(RangePieces) = 1
    /\ LET parts == Split(SubSeq(RawHeader("range").val, 7, Len(RawHeader("range").val)), "-")
       IN  /\ Len(parts) = 2
           /\ ParseUsize(parts[1], 10).some /\ ParseUsize(parts[2], 10).some
           /\ ParseUsize(parts[1], 10).val <= ParseUsize(parts[2], 10).val
           /\ ParseUsize(parts[2], 10).val < sub.inp.body_len

C20_OutcomeByValidPieces ==
    (RangeEvaluated /\ RawHeader("range").some) =>
        IF StartsWith(RawHeader("range").val, <<"b", "y", "t", "e", "s", "=">>)
        THEN LET n == Cardinality({i \in 1..Len(RangePieces) : RangePieces[i].kind = "Some"})
             IN  /\ n = 0 => sub.out = OutStatus(416, FALSE)
                 /\ n = 1 => sub.range.kind = "Range" /\ sub.status = 206 /\ sub.content_range.some
                 /\ n >= 2 =>
                       /\ sub.range.kind = "MultipartRange" /\ sub.status = 206
                       /\ StartsWith(sub.range.media_type, H_MEDIA_MULTIPART_RANGE \o <<";", " ", "b", "o", "u", "n", "d", "a", "r", "y", "=">>)
        ELSE sub.range.kind = "Entire" /\ sub.body = [seek |-> 0, len |-> sub.inp.body_len]

(***************************************************************************)
(* Specification of the multipart body: RangeParser::multipart_range_body  *)
(* is called with two or three valid ranges on a body of BodyBytes.        *)
(***************************************************************************)
BodyBytes == <<"a", "b", "c", "d">>

ValidRanges ==
    {r \in [kind : {"Some"}, low : 0..Len(BodyBytes), high : 0..Len(BodyBytes)] : r.low < r.high}

MultipartInit ==
    /\ sub \in {[state |-> "multipart", body |-> [kind |-> k, bytes |-> BodyBytes],
                 ranges |-> rs, result |-> [kind |-> "none"]] :
                    k \in {"Bytes", "Stream"},
                    rs \in {<<a, b>> : a \in ValidRanges, b \in ValidRanges}
                              \cup {<<a, b, a>> : a \in ValidRanges, b \in ValidRanges}}
    /\ uri_in = Idle /\ uri_out = Idle /\ gen = Idle
    /\ pc = "idle" /\ configs = <<>> /\ cur = Idle /\ output = Idle
    /\ nparsed = 0 /\ written = <<>> /\ last = Idle

\* RangeParser::get_body, lines 62-70
MultipartRangeBody ==
    /\ sub.state = "multipart"
    /\ sub' = [sub EXCEPT !.state = "multipart done",
                          !.result = multipart_range_body(sub.body, Len(BodyBytes), <<"t">>,
                                                          <<"0">>, sub.ranges)]
    /\ ParseUnchanged

MultipartNext == MultipartRangeBody

SpecMultipart == MultipartInit /\ [][MultipartNext]_vars

\* The part of the multipart body for range i of the request.
ClaimedPart(i) ==
    <<"-", "-", "0">> \o CRLF \o <<"c", "o", "n", "t", "e", "n", "t", "-", "t", "y", "p", "e", ":", " ">> \o <<"t">> \o CRLF
        \o <<"c", "o", "n", "t", "e", "n", "t", "-", "r", "a", "n", "g", "e", ":", " ", "b", "y", "t", "e", "s", " ">> \o DecimalChars(sub.ranges[i].low) \o <<"-">>
        \o DecimalChars(sub.ranges[i].high - 1) \o <<"/">> \o DecimalChars(Len(BodyBytes)) \o CRLF
        \o CRLF \o SubSeq(sub.body.bytes, sub.ranges[i].low + 1, sub.ranges[i].high) \o CRLF

\* C21: for two or more valid ranges, on a Stream body as on a Bytes body,
\* the multipart body is, for each range in the order of the request, the
\* boundary line, a Content-Type line, the Content-Range line, a blank line,
\* the bytes of the resource at [low, high) and CRLF, and then the
\* terminator --boundary--.
C21_MultipartBodyOfRanges ==
    sub.state = "multipart done" =>
        /\ sub.result.kind = "MultipartRange"
        /\ sub.result.body = Concat([i \in 1..Len(sub.ranges) |-> ClaimedPart(i)])
                                \o <<"-", "-", "0", "-", "-">>

(***************************************************************************)
(* The message builder and the sending of a message (http/message.rs).  A  *)
(* body is a record: Bytes with its bytes, or File with the length of the  *)
(* file.                                                                   *)
(***************************************************************************)
MAX_BODY_BEFORE_CHUNK == 8192
CHUNK_SIZE == 4096

\* MessageBuilder::with_body
with_body(message, body, media_type) ==
    LET framed ==
            IF body.kind = "File"
            THEN with_header(message, "content-length", DecimalChars(body.len))
            ELSE IF Len(body.bytes) > MAX_BODY_BEFORE_CHUNK
            THEN [message EXCEPT
                    !.chunked = TRUE,
                    !.headers = headers_remove(
                        headers_set_one(@, "transfer-encoding", <<"c", "h", "u", "n", "k", "e", "d">>),
                        "content-length")]
            ELSE with_header(message, "content-length", DecimalChars(Len(body.bytes)))
    IN  with_header([framed EXCEPT !.body = Some(body)], "content-type", media_type)

(***************************************************************************)
(* Specification of the builder: up to MaxCalls calls of with_body and     *)
(* set_status on a new response, then build.                               *)
(***************************************************************************)
MaxCalls == 3

\* n bytes that repeat the pattern.
BytesOf(n, pattern) == [i \in 1..n |-> pattern[((i - 1) % Len(pattern)) + 1]]

BuilderBodies ==
    {[kind |-> "Bytes", bytes |-> BytesOf(n, <<"a">>)] :
        n \in {0, 2, MAX_BODY_BEFORE_CHUNK, MAX_BODY_BEFORE_CHUNK + 1}}
    \cup {[kind |-> "File", len |-> n] : n \in {3, MAX_BODY_BEFORE_CHUNK + 2}}

BuilderInit ==
    /\ sub = [state |-> "building", message |-> NewResponse, calls |-> 0,
              last_call |-> "new", last_body |-> NoneOpt]
    /\ uri_in = Idle /\ uri_out = Idle /\ gen = Idle
    /\ pc = "idle" /\ configs = <<>> /\ cur = Idle /\ output = Idle
    /\ nparsed = 0 /\ written = <<>> /\ last = Idle

\* MessageBuilder::with_body
WithBody ==
    /\ sub.state = "building" /\ sub.calls < MaxCalls
    /\ \E body \in BuilderBodies :
          sub' = [sub EXCEPT !.message = with_body(@, body, <<"t">>), !.calls = @ + 1,
                             !.last_call = "with_body", !.last_body = Some(body)]
    /\ ParseUnchanged

\* MessageBuilder::<Response>::with_status
WithStatus ==
    /\ sub.state = "building" /\ sub.calls < MaxCalls
    /\ \E status \in {100, 200, 204, 404} :
          sub' = [sub EXCEPT !.message = set_status(@, status), !.calls = @ + 1,
                             !.last_call = "with_status"]
    /\ ParseUnchanged

\* MessageBuilder::build
Build ==
    /\ sub.state = "building"
    /\ sub' = [sub EXCEPT !.state = "built"]
    /\ ParseUnchanged

BuilderNext == WithBody \/ WithStatus \/ Build

SpecBuilder == BuilderInit /\ [][BuilderNext]_vars

\* The Content-Length header of the message says n.
ContentLengthIs(message, n) ==
    /\ headers_contains(message.headers, "content-length")
    /\ message.headers["content-length"] = <<DecimalChars(n)>>

\* The message has the header Transfer-Encoding: chunked.
HasChunkedEncoding(message) ==
    /\ headers_contains(message.headers, "transfer-encoding")
    /\ message.headers["transfer-encoding"] = <<<<"c", "h", "u", "n", "k", "e", "d">>>>

\* C23: after builder calls whose last with_body attached the body b, the
\* framing of the message matches b: Bytes of at most 8192 bytes and streams
\* are not chunked and have the Content-Length of b, longer Bytes are
\* chunked with Transfer-Encoding: chunked and no Content-Length; a message
\* never has both Content-Length and Transfer-Encoding: chunked.  (Checked
\* where with_body was the last call.)
C23_FramingMatchesBody ==
    sub.last_call = "with_body" =>
        /\ IF sub.last_body.val.kind = "File"
           THEN ~sub.message.chunked /\ ContentLengthIs(sub.message, sub.last_body.val.len)
           ELSE IF Len(sub.last_body.val.bytes) <= MAX_BODY_BEFORE_CHUNK
           THEN ~sub.message.chunked
                   /\ ContentLengthIs(sub.message, Len(sub.last_body.val.bytes))
           ELSE /\ sub.message.chunked /\ HasChunkedEncoding(sub.message)
                /\ ~headers_contains(sub.message.headers, "content-length")
        /\ ~(headers_contains(sub.message.headers, "content-length")
                /\ HasChunkedEncoding(sub.message))

\* C24: a built response whose status is 204 or 1xx has no Content-Length
\* header and no body, whether the status was set before or after a body
\* was attached.
C24_NoBodyForBodilessStatus ==
    (sub.state = "built" /\ (sub.message.status = 204 \/ sub.message.status < 200)) =>
        /\ ~headers_contains(sub.message.headers, "content-length")
        /\ ~sub.message.body.some

\* LowerHex for usize ({:x})
RECURSIVE LowerHexChars(_)
LowerHexChars(n) ==
    IF n < 16 THEN <<(Digits \o LowerHex)[n + 1]>>
    ELSE LowerHexChars(n \div 16) \o <<(Digits \o LowerHex)[(n % 16) + 1]>>

\* A write_chunk that writes the size of the chunk in decimal digits.
write_chunk_decimal(chunk) == DecimalChars(Len(chunk)) \o CRLF \o chunk \o CRLF

\* write_chunk: the bytes written for a chunk.
write_chunk(chunk) == LowerHexChars(Len(chunk)) \o CRLF \o chunk \o CRLF

\* The position of the first line feed of wire at or after pos, or the last
\* position of wire if there is none.
RECURSIVE LineEnd(_, _)
LineEnd(wire, pos) ==
    IF pos >= Len(wire) THEN Len(wire)
    ELSE IF wire[pos] = "#10" THEN pos
    ELSE LineEnd(wire, pos + 1)

\* BufRead::read_line at pos: the bytes up to and with the next line feed.
read_line(wire, pos) == SubSeq(wire, pos, LineEnd(wire, pos))

\* MessageParser::parse_chunked_body on the bytes of wire from pos on, with
\* the body read so far.  The trailer that is read here is the empty one.
RECURSIVE parse_chunked_bytes(_, _, _)
parse_chunked_bytes(wire, pos, body) ==
    LET line == read_line(wire, pos)
        chunk_size == ParseUsize(Split(SubSeq(line, 1, Len(line) - 2), ";")[1], 16)
        data == pos + Len(line)
    IN  IF Len(line) < 2 THEN Err("InvalidBody")
        ELSE IF ~chunk_size.some THEN Err("Unknown")
        ELSE IF chunk_size.val = 0
        THEN (IF read_line(wire, data) = CRLF THEN Ok(body) ELSE Err("InvalidHeader"))
        ELSE IF data + chunk_size.val - 1 > Len(wire) THEN Err("Unknown")
        ELSE IF read_line(wire, data + chunk_size.val) # CRLF THEN Err("InvalidBody")
        ELSE parse_chunked_bytes(wire, data + chunk_size.val + 2,
                                 body \o SubSeq(wire, data, data + chunk_size.val - 1))

(***************************************************************************)
(* Specification of chunked sending: send writes a response with a Bytes   *)
(* body, and what it wrote for a chunked body is read back by               *)
(* MessageParser::parse_chunked_body.                                      *)
(***************************************************************************)
ChunkBodies ==
    {[kind |-> "Bytes", bytes |-> BytesOf(n, p)] :
        n \in {MAX_BODY_BEFORE_CHUNK + 1, MAX_BODY_BEFORE_CHUNK + 8, 3 * CHUNK_SIZE,
               3 * CHUNK_SIZE + 1, 4 * CHUNK_SIZE + 1},
        p \in {<<"a">>, <<"#13", "#10">>, <<"0", "#13", "#10", "#13", "#10">>, <<"f", ";">>, <<"#10">>}}
    \cup {[kind |-> "Bytes", bytes |-> BytesOf(n, <<"a">>)] : n \in {2, MAX_BODY_BEFORE_CHUNK}}

ChunkInit ==
    /\ sub \in {[state |-> "built", message |-> with_body(NewResponse, body, <<"t">>),
                 rest |-> <<>>, wire |-> <<>>, result |-> Idle] : body \in ChunkBodies}
    /\ uri_in = Idle /\ uri_out = Idle /\ gen = Idle
    /\ pc = "idle" /\ configs = <<>> /\ cur = Idle /\ output = Idle
    /\ nparsed = 0 /\ written = <<>> /\ last = Idle

\* send, the head of the message (whose bytes are not kept here).
SendHead ==
    /\ sub.state = "built"
    /\ sub' = [sub EXCEPT !.state = IF sub.message.chunked THEN "sending chunks" ELSE "sending whole",
                          !.rest = sub.message.body.val.bytes]
    /\ ParseUnchanged

\* send, a chunked message: write_chunk for the next chunk of bytes.chunks(CHUNK_SIZE).
SendChunk ==
    /\ sub.state = "sending chunks" /\ sub.rest # <<>>
    /\ \E n \in {IF Len(sub.rest) < CHUNK_SIZE THEN Len(sub.rest) ELSE CHUNK_SIZE} :
          sub' = [sub EXCEPT !.wire = @ \o write_chunk(SubSeq(sub.rest, 1, n)),
                             !.rest = SubSeq(@, n + 1, Len(@))]
    /\ ParseUnchanged

\* send, a chunked message: the last chunk.
SendLastChunk ==
    /\ sub.state = "sending chunks" /\ sub.rest = <<>>
    /\ sub' = [sub EXCEPT !.state = "sent chunked", !.wire = @ \o <<"0">> \o CRLF \o CRLF]
    /\ ParseUnchanged

\* send, a message that is not chunked: write_all of the bytes.
SendWhole ==
    /\ sub.state = "sending whole"
    /\ sub' = [sub EXCEPT !.state = "sent whole", !.wire = sub.rest, !.rest = <<>>]
    /\ ParseUnchanged

\* MessageParser::parse_chunked_body on what was sent.
ParseChunkedBody ==
    /\ sub.state = "sent chunked"
    /\ sub' = [sub EXCEPT !.state = "parsed", !.result = parse_chunked_bytes(sub.wire, 1, <<>>)]
    /\ ParseUnchanged

ChunkNext == SendHead \/ SendChunk \/ SendLastChunk \/ SendWhole \/ ParseChunkedBody

SpecChunk == ChunkInit /\ [][ChunkNext]_vars

\* C22: for every Bytes body longer than MAX_BODY_BEFORE_CHUNK, what send
\* writes for the body, read back by the parser of chunked bodies, is
\* exactly the bytes of the body.
C22_ChunkedSymmetry ==
    sub.state = "parsed" => sub.result = Ok(sub.message.body.val.bytes)

\* A body of line feeds whose length is no multiple of CHUNK_SIZE has been
\* sent in chunks and read back.
C22_Witness ==
    /\ sub.state = "parsed"
    /\ Len(sub.message.body.val.bytes) = 3 * CHUNK_SIZE + 1
    /\ sub.message.body.val.bytes[1] = "#10"
    /\ sub.result.ok

(***************************************************************************)
(* URL rewriting (ResponseGenerator::rewrite_url).  A rule of the routing  *)
(* table is a record of the RouteSpec, as the alternating strings and      *)
(* variable captures that convert_to_regex makes a regular expression of   *)
(* (a capture without a regex of its own is .+), and of the parts of the   *)
(* template that is the RouteReplacement.                                  *)
(***************************************************************************)
\* Regex::captures for the regular expression of the parts, which is
\* anchored at pos and, if exact, at the end of the target: the end of the
\* match and the captures by name.  A capture is greedy: it takes the most
\* characters with which the rest still matches.
RECURSIVE RegexCaptures(_, _, _, _)
RegexCaptures(parts, exact, target, pos) ==
    IF parts = <<>>
    THEN (IF exact /\ pos # Len(target) + 1 THEN NoneOpt
          ELSE Some([end |-> pos - 1, captures |-> <<>>]))
    ELSE IF Head(parts).kind = "String"
    THEN (IF pos + Len(Head(parts).text) - 1 <= Len(target)
                /\ SubSeq(target, pos, pos + Len(Head(parts).text) - 1) = Head(parts).text
          THEN RegexCaptures(Tail(parts), exact, target, pos + Len(Head(parts).text))
          ELSE NoneOpt)
    ELSE LET fits == {n \in 1..(Len(target) - pos + 1) :
                        RegexCaptures(Tail(parts), exact, target, pos + n).some}
             most == CHOOSE n \in fits : \A k \in fits : k <= n
             rest == RegexCaptures(Tail(parts), exact, target, pos + most).val
         IN  IF fits = {} THEN NoneOpt
             ELSE Some([end |-> rest.end,
                        captures |-> (Head(parts).name :> SubSeq(target, pos, pos + most - 1))
                                        @@ rest.captures])

\* Template::substitute for a template of strings and single placeholders.
RECURSIVE substitute(_, _)
substitute(parts, placeholders) ==
    IF parts = <<>> THEN Some(<<>>)
    ELSE IF Head(parts).kind = "String"
    THEN (IF substitute(Tail(parts), placeholders).some
          THEN Some(Head(parts).text \o substitute(Tail(parts), placeholders).val)
          ELSE NoneOpt)
    ELSE IF Head(parts).name \in DOMAIN placeholders /\ substitute(Tail(parts), placeholders).some
    THEN Some(placeholders[Head(parts).name] \o substitute(Tail(parts), placeholders).val)
    ELSE NoneOpt

\* A rewrite_url that rewrites with the last rule that matches.
RECURSIVE rewrite_url_last_match(_, _)
rewrite_url_last_match(routing_table, raw_target) ==
    IF routing_table = <<>> THEN NoneOpt
    ELSE LET rule == routing_table[Len(routing_table)]
             capture == RegexCaptures(rule.parts, rule.exact, raw_target, 1)
         IN  IF capture.some
             THEN (IF substitute(rule.replacement, capture.val.captures).some
                   THEN Some(substitute(rule.replacement, capture.val.captures).val
                                \o SubSeq(raw_target, capture.val.end + 1, Len(raw_target)))
                   ELSE NoneOpt)
             ELSE rewrite_url_last_match(SubSeq(routing_table, 1, Len(routing_table) - 1), raw_target)

\* ResponseGenerator::rewrite_url
RECURSIVE rewrite_url(_, _)
rewrite_url(routing_table, raw_target) ==
    IF routing_table = <<>> THEN NoneOpt
    ELSE LET rule == Head(routing_table)
             capture == RegexCaptures(rule.parts, rule.exact, raw_target, 1)
         IN  IF capture.some
             THEN (IF substitute(rule.replacement, capture.val.captures).some
                   THEN Some(substitute(rule.replacement, capture.val.captures).val
                                \o SubSeq(raw_target, capture.val.end + 1, Len(raw_target)))
                   ELSE NoneOpt)
             ELSE rewrite_url(Tail(routing_table), raw_target)

(***************************************************************************)
(* Specification of URL rewriting: ResponseGenerator::new for a request    *)
(* whose URI is written as raw_target, under a routing table of up to two  *)
(* rules.                                                                  *)
(***************************************************************************)
RouteRules ==
    {[exact |-> FALSE, parts |-> <<[kind |-> "String", text |-> <<"/", "a">>]>>, replacement |-> <<[kind |-> "String", text |-> <<"/", "b">>]>>],
     [exact |-> TRUE, parts |-> <<[kind |-> "String", text |-> <<"/", "a">>]>>, replacement |-> <<[kind |-> "String", text |-> <<"/", "c">>]>>],
     [exact |-> FALSE, parts |-> <<[kind |-> "String", text |-> <<"/", "a", "/">>], [kind |-> "Placeholder", name |-> "v"]>>, replacement |-> <<[kind |-> "String", text |-> <<"/", "q", "/">>], [kind |-> "Placeholder", name |-> "v"]>>],
     [exact |-> FALSE, parts |-> <<[kind |-> "String", text |-> <<"/", "a", "/">>], [kind |-> "Placeholder", name |-> "v"], [kind |-> "String", text |-> <<"/", "b">>]>>, replacement |-> <<[kind |-> "String", text |-> <<"/">>], [kind |-> "Placeholder", name |-> "v"], [kind |-> "String", text |-> <<"/", "z">>]>>],
     [exact |-> FALSE, parts |-> <<[kind |-> "String", text |-> <<"/", "b">>]>>, replacement |-> <<[kind |-> "String", text |-> <<"/", "c">>]>>],
     [exact |-> FALSE, parts |-> <<[kind |-> "String", text |-> <<"/", "c", "/">>], [kind |-> "Placeholder", name |-> "v"]>>, replacement |-> <<[kind |-> "String", text |-> <<"/">>], [kind |-> "Placeholder", name |-> "w"]>>]}

RouteTargets ==
    {<<"/">>, <<"/", "a">>, <<"/", "a", "/", "x">>, <<"/", "a", "/", "x", "/", "b">>, <<"/", "a", "/", "x", "/", "b", "/", "y">>, <<"/", "a", "/", "b", "/", "b">>, <<"/", "b">>, <<"/", "c", "/", "d">>}

RewriteInit ==
    /\ sub \in {[state |-> "new", routing_table |-> table, raw_target |-> target,
                 routed_target |-> <<>>, rewrites |-> 0] :
                    table \in {<<>>} \cup {<<r>> : r \in RouteRules}
                                \cup {t \in {<<r, s>> : r \in RouteRules, s \in RouteRules} : t[1] # t[2]},
                    target \in RouteTargets}
    /\ uri_in = Idle /\ uri_out = Idle /\ gen = Idle
    /\ pc = "idle" /\ configs = <<>> /\ cur = Idle /\ output = Idle
    /\ nparsed = 0 /\ written = <<>> /\ last = Idle

\* ResponseGenerator::new: get_req_targets, its routed target.
GetReqTargets ==
    /\ sub.state = "new"
    /\ \E rewritten \in {rewrite_url(sub.routing_table, sub.raw_target)} :
          sub' = [sub EXCEPT !.state = "generating",
                             !.routed_target = IF rewritten.some THEN rewritten.val
                                               ELSE sub.raw_target,
                             !.rewrites = @ + 1]
    /\ ParseUnchanged

\* ResponseGenerator::get_response, which works with the routed target.
GetResponseRouted ==
    /\ sub.state = "generating"
    /\ sub' = [sub EXCEPT !.state = "generated"]
    /\ ParseUnchanged

RewriteNext == GetReqTargets \/ GetResponseRouted

SpecRewrite == RewriteInit /\ [][RewriteNext]_vars

\* The rules of the routing table whose regular expression matches the raw
\* target.
MatchingRules ==
    {i \in 1..Len(sub.routing_table) :
        RegexCaptures(sub.routing_table[i].parts, sub.routing_table[i].exact, sub.raw_target, 1).some}

\* The placeholders of the replacement of rule i are captures of its spec.
PlaceholdersCaptured(i) ==
    \A p \in 1..Len(sub.routing_table[i].replacement) :
        sub.routing_table[i].replacement[p].kind = "Placeholder" =>
            \E q \in 1..Len(sub.routing_table[i].parts) :
                /\ sub.routing_table[i].parts[q].kind = "Placeholder"
                /\ sub.routing_table[i].parts[q].name = sub.routing_table[i].replacement[p].name

\* The replacement of rule i with the captures of its match put in, then the
\* raw target after the end of the match.
RoutedByRule(i) ==
    LET rule == sub.routing_table[i]
        capture == RegexCaptures(rule.parts, rule.exact, sub.raw_target, 1).val
    IN  Concat([p \in 1..Len(rule.replacement) |->
                    IF rule.replacement[p].kind = "String" THEN rule.replacement[p].text
                    ELSE capture.captures[rule.replacement[p].name]])
            \o SubSeq(sub.raw_target, capture.end + 1, Len(sub.raw_target))

MAX_HEADER_LENGTH == 8192

TOKEN_CHARS == {"!", "#", "$", "%", "&", "'", "*", "+", "-", ".", "^", "_", "#96", "|", "~"}

is_token_string(str) == AllChars(str, TOKEN_CHARS \cup DigitChars \cup LetterChars)

\* The header names that the outputs of the scripts are made of, as texts.
HeaderNameText ==
    [n \in {"content-length", "x"} |->
        IF n = "x" THEN <<"x">>
        ELSE <<"c", "o", "n", "t", "e", "n", "t", "-", "l", "e", "n", "g", "t", "h">>]

\* Headers::normalize_header_name: the lower-case name (a name that is none
\* of the texts above is the name other).
normalize_header_name(name) ==
    IF \E n \in DOMAIN HeaderNameText : HeaderNameText[n] = ToAsciiLowercase(name)
    THEN CHOOSE n \in DOMAIN HeaderNameText : HeaderNameText[n] = ToAsciiLowercase(name)
    ELSE "other"

\* str::strip_suffix(CRLF).unwrap_or(str)
StripCrlf(str) == IF EndsWith(str, CRLF) THEN SubSeq(str, 1, Len(str) - 2) ELSE str

\* The index after the first window of two line feeds, 0 if there is none.
BodyIndexAfterWindow(res) ==
    LET windows == {i \in 1..(Len(res) - 1) : res[i] = "#10" /\ res[i + 1] = "#10"}
    IN  IF windows = {} THEN 0 ELSE (CHOOSE i \in windows : \A j \in windows : i <= j) + 1

\* CgiRunner::replace_crlf_nl: the bytes up to body_index with every line
\* feed replaced by CR LF, then the other bytes.  Without a window of two
\* line feeds body_index is res.len() - 2 + 2, whose subtraction overflows
\* for an output of one byte: a panic with overflow checks, and res.len()
\* in a build that wraps.
replace_crlf_nl(res, wrapping) ==
    LET window == BodyIndexAfterWindow(res)
        body_index == IF window # 0 THEN window ELSE Len(res)
    IN  IF window = 0 /\ Len(res) < 2 /\ ~wrapping THEN [panic |-> TRUE, bytes |-> <<>>]
        ELSE [panic |-> FALSE,
              bytes |-> Concat([i \in 1..body_index |->
                                   IF res[i] = "#10" THEN CRLF ELSE <<res[i]>>])
                            \o SubSeq(res, body_index + 1, Len(res))]

\* BufRead::read_until of the space at pos: the bytes up to and with the next space.
ReadUntilSpace(wire, pos) ==
    LET rest == SubSeq(wire, pos, Len(wire))
    IN  IF Find(rest, " ") = 0 THEN rest ELSE SubSeq(rest, 1, Find(rest, " "))

\* The codes of the enum Status.
StatusCodes ==
    (100..102) \cup (200..208) \cup (300..305) \cup {307, 308} \cup (400..418) \cup (421..424)
        \cup {426, 428, 429, 431, 444, 451} \cup (500..508) \cup {510, 511}

\* MessageParser::parse_status_line: the status and the position after the
\* line, or the error.
parse_status_line(wire) ==
    LET version == ReadUntilSpace(wire, 1)
        code == ReadUntilSpace(wire, 1 + Len(version))
        status == 100 * HexDigit(code[1]) + 10 * HexDigit(code[2]) + HexDigit(code[3])
        line == read_line(wire, 1 + Len(version) + Len(code))
    IN  IF version = <<>> THEN Err("EndOfStream")
        ELSE IF version \notin {<<"H", "T", "T", "P", "/", d[1], ".", d[2], " ">> :
                                   d \in {<<"0", "9">>, <<"1", "0">>, <<"1", "1">>}}
        THEN Err("UnsupportedVersion")
        ELSE IF code = <<>> THEN Err("EndOfStream")
        ELSE IF Len(code) # 4 \/ (\E i \in 1..3 : code[i] \notin DigitChars) \/ code[4] # " "
        THEN Err("InvalidStatusCode")
        ELSE IF status \notin StatusCodes THEN Err("InvalidStatusCode")
        ELSE Ok([status |-> status, pos |-> 1 + Len(version) + Len(code) + Len(line)])

\* MessageParser::parse_headers(false) on the bytes of wire from pos on: the
\* headers and the position after the empty line, or the error.  At the end
\* of wire read_line reads nothing, which is a line without a colon.
RECURSIVE parse_headers_bytes(_, _, _)
parse_headers_bytes(wire, pos, headers) ==
    LET line == read_line(wire, pos)
        parts == SplitN2(line, ":")
        parsed == parse_header(headers, [name |-> normalize_header_name(parts[1]),
                                         value |-> StripCrlf(parts[2])])
    IN  IF line = CRLF THEN Ok([headers |-> headers, pos |-> pos + 2])
        ELSE IF Len(line) > MAX_HEADER_LENGTH THEN Err("HeaderTooLong")
        ELSE IF Find(line, ":") = 0 THEN Err("InvalidHeader")
        ELSE IF ~is_token_string(parts[1]) THEN Err("InvalidHeader")
        ELSE IF ~parsed.result.ok THEN parsed.result
        ELSE parse_headers_bytes(wire, pos + Len(line), parsed.result.val)

\* MessageParser::parse_body on the bytes of wire from pos on: the body, if
\* the headers announce one, or the error.
parse_body_bytes(method, headers, wire, pos) ==
    IF headers_contains(headers, "transfer-encoding")
    THEN IF \E i \in 1..Len(headers["transfer-encoding"]) :
               headers["transfer-encoding"][i] # <<"c", "h", "u", "n", "k", "e", "d">>
         THEN Err("UnsupportedTransferEncoding")
         ELSE LET body == parse_chunked_bytes(wire, pos, <<>>)
              IN  IF body.ok THEN Ok(Some(body.val)) ELSE body
    ELSE IF headers_contains(headers, "content-length")
    THEN LET length == ParseUsize(headers["content-length"][1], 10)
         IN  IF ~length.some THEN Err("InvalidBody")
             ELSE IF (method = "GET" /\ length.val > MAX_GET_BODY_LENGTH)
                        \/ length.val > MAX_OTHER_BODY_LENGTH
             THEN Err("BodyTooLarge")
             ELSE IF pos + length.val - 1 > Len(wire) THEN Err("Unknown")
             ELSE Ok(Some(SubSeq(wire, pos, pos + length.val - 1)))
    ELSE Ok(NoneOpt)

\* MessageParser::parse_response
parse_response(wire) ==
    LET line == parse_status_line(wire)
        head == parse_headers_bytes(wire, line.val.pos, NoHeaders)
        body == parse_body_bytes("POST", head.val.headers, wire, head.val.pos)
    IN  IF ~line.ok THEN line
        ELSE IF ~head.ok THEN head
        ELSE IF ~body.ok THEN body
        ELSE Ok([status |-> line.val.status, headers |-> head.val.headers,
                 body |-> body.val, chunked |-> FALSE])

\* Response::new(reader, writer): the response parsed from the reader.
ResponseNew(wire) == parse_response(wire)

\* The status line that get_response puts before the output of the script.
CgiStatusLine == <<"H", "T", "T", "P", "/", "1", ".", "1", " ", "2", "0", "0", " ">> \o CRLF

\* CgiRunner::get_response on the outcome of get_script_output: the output
\* instruction, with the bytes handed to the parser, or the panic of
\* replace_crlf_nl.
cgi_get_response(script, is_nph, wrapping) ==
    LET fixed == replace_crlf_nl(script.stdout, wrapping)
        response == ResponseNew(CgiStatusLine \o fixed.bytes)
        failed == [kind |-> "Error", status |-> 500, close |-> FALSE]
    IN  IF script.kind # "success" THEN failed
        ELSE IF is_nph THEN [kind |-> "Bytes", bytes |-> script.stdout, close |-> FALSE]
        ELSE IF script.stdout = <<>> THEN failed
        ELSE IF fixed.panic THEN [kind |-> "Panic"]
        ELSE IF response.ok
        THEN [kind |-> "Response", response |-> response.val, close |-> FALSE,
              fixed |-> fixed.bytes]
        ELSE [failed EXCEPT !.kind = "Error"] @@ [fixed |-> fixed.bytes]

(***************************************************************************)
(* Specification of the CGI adapter: CgiRunner::get_response for one       *)
(* script, and OutputProcessor::process on its output.                     *)
(***************************************************************************)
MaxCgiTokens == 4

ContentLength1 ==
    <<"C", "o", "n", "t", "e", "n", "t", "-", "L", "e", "n", "g", "t", "h", ":", " ", "1">>

CgiTokens == {<<"#10">>, CRLF, <<"b">>, <<"X", ":", "y">>, ContentLength1}

CgiOutputs == {Concat(ts) : ts \in UNION {[1..k -> CgiTokens] : k \in 0..MaxCgiTokens}}

CgiInit ==
    /\ sub \in [state : {"script"}, is_nph : BOOLEAN, wrapping : BOOLEAN,
                script : [kind : {"success", "failure", "none"}, stdout : CgiOutputs]]
    /\ uri_in = Idle /\ uri_out = Idle /\ gen = Idle /\ pc = "idle" /\ configs = <<>>
    /\ cur = Idle /\ output = Idle /\ nparsed = 0 /\ written = <<>> /\ last = Idle

\* CgiRunner::get_response
CgiGetResponse ==
    /\ sub.state = "script"
    /\ \E out \in {cgi_get_response(sub.script, sub.is_nph, sub.wrapping)} :
          sub' = [state |-> IF out.kind = "Panic" THEN "panicked" ELSE "output",
                  is_nph |-> sub.is_nph, wrapping |-> sub.wrapping, script |-> sub.script,
                  out |-> out]
    /\ ParseUnchanged

\* OutputProcessor::process on the output of the script runner: what send or
\* write_all writes to the connection, and whether the connection is to be
\* closed.
CgiProcess ==
    /\ sub.state = "output"
    /\ \E io_ok \in BOOLEAN :
          sub' = [state |-> "processed", is_nph |-> sub.is_nph, wrapping |-> sub.wrapping,
                  script |-> sub.script, out |-> sub.out, io_ok |-> io_ok,
                  sent |-> IF ~io_ok THEN [kind |-> "nothing"]
                           ELSE IF sub.out.kind = "Bytes"
                           THEN [kind |-> "bytes", bytes |-> sub.out.bytes]
                           ELSE IF sub.out.kind = "Response"
                           THEN [kind |-> "message", status |-> sub.out.response.status,
                                 body |-> IF sub.out.response.body.some
                                          THEN sub.out.response.body.val ELSE <<>>]
                           ELSE [kind |-> "message", status |-> sub.out.status,
                                 body |-> <<"e">>],
                  closed |-> ~io_ok \/ sub.out.close]
    /\ ParseUnchanged

CgiNext == CgiGetResponse \/ CgiProcess

SpecCgi == CgiInit /\ [][CgiNext]_vars

\* A successful script that is not an NPH script has written a non-empty
\* output, and get_response has run on it.
CgiOutputHandled ==
    /\ sub.state # "script" /\ ~sub.is_nph
    /\ sub.script.kind = "success" /\ sub.script.stdout # <<>>

\* The index of the line feed that ends the first blank line of res, 0 if
\* res has no blank line.
HeadEnd(res) ==
    LET blank == {i \in 1..Len(res) :
                     /\ res[i] = "#10"
                     /\ \/ i = 1
                        \/ res[i - 1] = "#10"
                        \/ res[i - 1] = "#13" /\ (i = 2 \/ res[i - 2] = "#10")}
    IN  IF blank = {} THEN 0 ELSE CHOOSE i \in blank : \A j \in blank : i <= j

\* The output with the bare line feeds of its head section, which ends with
\* the first blank line, replaced by CR LF.
BareLfOfHeadReplaced(res) ==
    LET end == IF HeadEnd(res) = 0 THEN Len(res) ELSE HeadEnd(res)
    IN  Concat([i \in 1..end |->
                   IF res[i] = "#10" /\ (i = 1 \/ res[i - 1] # "#13") THEN CRLF
                   ELSE <<res[i]>>])
            \o SubSeq(res, end + 1, Len(res))

\* C29 (as claimed): for every non-empty output of a script, the line-ending
\* fix-up gives the output with only the bare line feeds of its head section
\* changed into CR LF and every byte after the head section unchanged, also
\* for a head with CR LF line endings and for an output of one byte.
C29_FixupOnlyBareLfOfHead ==
    CgiOutputHandled =>
        /\ sub.state # "panicked"
        /\ sub.out.fixed = BareLfOfHeadReplaced(sub.script.stdout)

\* The heads that a script writes: header lines, each ended by nl, and a
\* blank line.
CgiHeads ==
    {Concat([i \in 1..Len(lines) |-> lines[i] \o nl]) \o nl :
        lines \in UNION {[1..k -> {<<"X", ":", "y">>, ContentLength1}] : k \in 0..2},
        nl \in {<<"#10">>, CRLF}}

\* C27 (as claimed): if a successful script that is not an NPH script writes
\* a head followed by the body bytes B (a Content-Length header, if the head
\* has one, giving the length of B), then the response that is sent has the
\* status 200 and the body B, also without a Content-Length header.
C27_CgiBodyPassedOn ==
    (CgiOutputHandled /\ sub.state = "processed" /\ sub.io_ok) =>
        \A head \in CgiHeads :
            (/\ StartsWith(sub.script.stdout, head)
             /\ (\E i \in 1..Len(head) : head[i] = "1") => Len(sub.script.stdout) = Len(head) + 1)
            => /\ sub.sent.kind = "message" /\ sub.sent.status = 200
               /\ sub.sent.body = SubSeq(sub.script.stdout, Len(head) + 1, Len(sub.script.stdout))

(***************************************************************************)
(* The header store on names as texts (http/headers.rs): a map from the    *)
(* stored keys to the values.                                              *)
(***************************************************************************)
\* Headers::get
HeadersGet(headers, name) ==
    IF ToAsciiLowercase(name) \in DOMAIN headers
    THEN Some(headers[ToAsciiLowercase(name)]) ELSE NoneOpt

\* Headers::contains
HeadersContains(headers, name) == HeadersGet(headers, name).some

\* Headers::set: the store after the call (unchanged if the call returns
\* false).
HeadersSet(headers, name, values) ==
    IF ~is_token_string(name) \/ \E i \in 1..Len(values) : ~is_valid_header_value(values[i])
    THEN headers
    ELSE (ToAsciiLowercase(name) :> values) @@ headers

\* Headers::set_one
HeadersSetOne(headers, name, value) ==
    IF ~is_token_string(name) \/ ~is_valid_header_value(value) THEN headers
    ELSE (ToAsciiLowercase(name) :> <<value>>) @@ headers

\* Headers::remove: the key that is removed is the name as it was given.
HeadersRemove(headers, name) == [k \in DOMAIN headers \ {name} |-> headers[k]]

(***************************************************************************)
(* Specification of the header store: up to MaxStoreCalls calls of set_one, *)
(* set and remove on a store that is empty at first.                       *)
(***************************************************************************)
MaxStoreCalls == 3

StoreNames == {<<"a">>, <<"A">>, <<"a", "b">>, <<"A", "b">>, <<"a", "B">>, <<"a", " ">>}

StoreValues == {<<"v">>, <<"w">>, <<"#13">>}

StoreInit ==
    /\ sub = [state |-> "store", headers |-> <<>>, calls |-> 0, op |-> [kind |-> "from"]]
    /\ uri_in = Idle /\ uri_out = Idle /\ gen = Idle /\ pc = "idle" /\ configs = <<>>
    /\ cur = Idle /\ output = Idle /\ nparsed = 0 /\ written = <<>> /\ last = Idle

StoreSetOne ==
    /\ sub.state = "store" /\ sub.calls < MaxStoreCalls
    /\ \E name \in StoreNames, value \in StoreValues :
          sub' = [sub EXCEPT !.headers = HeadersSetOne(@, name, value), !.calls = @ + 1,
                             !.op = [kind |-> "set_one", name |-> name, values |-> <<value>>]]
    /\ ParseUnchanged

StoreSet ==
    /\ sub.state = "store" /\ sub.calls < MaxStoreCalls
    /\ \E name \in StoreNames, values \in {<<>>, <<<<"v">>, <<"w">>>>, <<<<"v">>, <<"#13">>>>} :
          sub' = [sub EXCEPT !.headers = HeadersSet(@, name, values), !.calls = @ + 1,
                             !.op = [kind |-> "set", name |-> name, values |-> values]]
    /\ ParseUnchanged

StoreRemove ==
    /\ sub.state = "store" /\ sub.calls < MaxStoreCalls
    /\ \E name \in StoreNames :
          sub' = [sub EXCEPT !.headers = HeadersRemove(@, name), !.calls = @ + 1,
                             !.op = [kind |-> "remove", name |-> name, values |-> <<>>]]
    /\ ParseUnchanged

StoreNext == StoreSetOne \/ StoreSet \/ StoreRemove

SpecHeaders == StoreInit /\ [][StoreNext]_vars

\* The names that are equal to name ignoring ASCII case.
SameNames(name) == {m \in StoreNames : eq_ignore_ascii_case(m, name)}

\* C39 (as claimed): the stored keys are lower-case and the operations take
\* names without regard to ASCII case: after set_one(n, v) with a valid name
\* and value, get(m) is [v] and contains(m) is true for every m equal to n
\* ignoring case, and after remove(m), contains(n) is false for every such n.
C39_NamesCaseInsensitive ==
    sub.state = "store" =>
        /\ \A k \in DOMAIN sub.headers : k = ToAsciiLowercase(k)
        /\ (/\ sub.op.kind = "set_one"
            /\ is_token_string(sub.op.name) /\ is_valid_header_value(sub.op.values[1]))
              => \A m \in SameNames(sub.op.name) :
                    /\ HeadersGet(sub.headers, m) = Some(sub.op.values)
                    /\ HeadersContains(sub.headers, m)
        /\ sub.op.kind = "remove"
              => \A n \in SameNames(sub.op.name) : ~HeadersContains(sub.headers, n)

(***************************************************************************)
(* Specification of util::with_chunks alone: one call on a reader that     *)
(* holds at least len bytes.                                               *)
(***************************************************************************)
MaxChunks == 3

\* The lengths around the multiples of READ_CHUNK_SIZE, from 0 on.
ChunkedLengths ==
    {0, 1} \cup UNION {{k * READ_CHUNK_SIZE - 1, k * READ_CHUNK_SIZE, k * READ_CHUNK_SIZE + 1} :
                          k \in 1..MaxChunks}

WithChunksInit ==
    /\ sub \in [state : {"call"}, len : ChunkedLengths, extra : {0, 1, READ_CHUNK_SIZE},
                wrapping : BOOLEAN]
    /\ uri_in = Idle /\ uri_out = Idle /\ gen = Idle /\ pc = "idle" /\ configs = <<>>
    /\ cur = Idle /\ output = Idle /\ nparsed = 0 /\ written = <<>> /\ last = Idle

\* with_chunks(len, reader, op) on a reader with len + extra bytes, with an
\* op that returns Ok.
WithChunks ==
    /\ sub.state = "call"
    /\ \E done \in {with_chunks(sub.len, sub.len + sub.extra, sub.wrapping)} :
          sub' = [state |-> IF done.result = "panic" THEN "panicked" ELSE "returned",
                  len |-> sub.len, extra |-> sub.extra, wrapping |-> sub.wrapping,
                  done |-> done]
    /\ ParseUnchanged

\* The caller goes on after with_chunks has returned.
AfterWithChunks ==
    /\ sub.state = "returned"
    /\ sub' = [sub EXCEPT !.state = IF sub.done.result = "ok" THEN "finished" ELSE "failed"]
    /\ ParseUnchanged

WithChunksNext == WithChunks \/ AfterWithChunks

SpecWithChunks == WithChunksInit /\ [][WithChunksNext]_vars

\* C34 (as claimed): for every len from 0 on and a reader with at least len
\* bytes, with_chunks hands op consecutive chunks of at most READ_CHUNK_SIZE
\* bytes that make up exactly the first len bytes of the reader, and returns
\* Ok, also for len = 0 and for a len that is a multiple of READ_CHUNK_SIZE.
C34_WithChunksCoversLen ==
    sub.state # "call" =>
        /\ sub.state # "panicked"
        /\ sub.done.result = "ok"
        /\ sub.done.sent = sub.len
        /\ \A i \in 1..Len(sub.done.chunks) : sub.done.chunks[i] <= READ_CHUNK_SIZE

(***************************************************************************)
(* Specification of a revalidation: the server answers a GET of a file     *)
(* with its Last-Modified value, and the client then makes a conditional   *)
(* request with the value it was sent.  Meanwhile the file may be written. *)
(***************************************************************************)
\* util::format_time_rfc2616 of a time of this model.
format_time_rfc2616(time) == HttpDates[time.secs]

\* The modification times of the file: on a second and within one.
FileTimes == [secs : DOMAIN HttpDates, nanos : {0, 5}]

\* The conditional headers that a client makes of a Last-Modified value.
RevalidationHeaders == {"if-modified-since", "if-unmodified-since", "if-range"}

ConditionalLines(name, validator) ==
    IF name = "if-range"
    THEN <<HeaderLine("range", <<" ", "b", "y", "t", "e", "s", "=", "0", "-", "1">>),
           HeaderLine(name, <<" ">> \o validator)>>
    ELSE <<HeaderLine(name, <<" ">> \o validator)>>

RevalInit ==
    /\ sub \in [state : {"fresh"}, modified : FileTimes, use : RevalidationHeaders,
                validator : {<<>>}, changed : {FALSE}, lines : {<<>>}, pos : {1},
                headers : {NoHeaders}, out : {NoOutput}, after : {NoHeaders}]
    /\ uri_in = Idle /\ uri_out = Idle /\ gen = Idle /\ pc = "idle" /\ configs = <<>>
    /\ cur = Idle /\ output = Idle /\ nparsed = 0 /\ written = <<>> /\ last = Idle

\* get_response for a GET without conditions: the response carries
\* Last-Modified, the formatted time of modification of the file.
RevalFirstResponse ==
    /\ sub.state = "fresh"
    /\ sub' = [sub EXCEPT !.state = "sent", !.validator = format_time_rfc2616(sub.modified)]
    /\ ParseUnchanged

\* The file is written: its time of modification moves on.
RevalFileWritten ==
    /\ sub.state = "sent" /\ ~sub.changed
    /\ \E t \in FileTimes :
          /\ TimeLeq(sub.modified, t) /\ t # sub.modified
          /\ sub' = [sub EXCEPT !.modified = t, !.changed = TRUE]
    /\ ParseUnchanged

\* The client sends its conditional request with the value it holds.
RevalRequest ==
    /\ sub.state = "sent"
    /\ sub' = [sub EXCEPT !.state = "cond headers",
                          !.lines = ConditionalLines(sub.use, sub.validator)]
    /\ ParseUnchanged

\* parse_header on the next header line of the conditional request.
RevalParseHeader ==
    /\ sub.state = "cond headers" /\ sub.pos <= Len(sub.lines)
    /\ sub' = [sub EXCEPT !.pos = @ + 1,
                          !.headers = parse_header(@, sub.lines[sub.pos]).result.val]
    /\ ParseUnchanged

\* get_response for the conditional request: the CondInfo is made of the
\* time of modification of the file and ConditionalChecker::check is called.
RevalCheck ==
    /\ sub.state = "cond headers" /\ sub.pos > Len(sub.lines)
    /\ \E r \in {cond_check([etag |-> Some(EtagA), last_modified |-> Some(sub.modified)],
                            sub.headers)} :
          sub' = [sub EXCEPT !.state = "cond checked", !.out = r.out, !.after = r.headers]
    /\ ParseUnchanged

RevalNext ==
    RevalFirstResponse \/ RevalFileWritten \/ RevalRequest \/ RevalParseHeader \/ RevalCheck

SpecRevalidate == RevalInit /\ [][RevalNext]_vars

\* C36 (as claimed): a conditional request with the Last-Modified value that
\* the server sent for a file that has not changed since is treated as
\* unchanged: If-Modified-Since gives 304, If-Unmodified-Since passes and
\* If-Range keeps the Range header, whatever the part of the time of
\* modification below the second is.
C36_OwnLastModifiedIsUnchanged ==
    (sub.state = "cond checked" /\ ~sub.changed) =>
        /\ sub.use = "if-modified-since" => sub.out = OutStatus(304, FALSE)
        /\ sub.use = "if-unmodified-since" => sub.out = NoOutput
        /\ sub.use = "if-range" => sub.out = NoOutput /\ headers_contains(sub.after, "range")

(***************************************************************************)
(* Specification of Uri::from on targets in absolute-form that are made of *)
(* their parts: scheme, user info (or none), host, port (or none) and path.*)
(***************************************************************************)
AbsoluteUsers == {NoneOpt, Some(<<>>), Some(<<"u">>), Some(<<"u", ":", "p">>),
                  Some(<<"%", "2", "e">>)}

AbsoluteHosts == {<<"h">>, <<"%", "2", "e", "h">>}

AbsolutePorts == {NoneOpt, Some(<<"8">>), Some(<<"8", "0", "8", "0">>)}

AbsoluteRawPaths == {<<>>, <<"/">>, <<"/", "x">>, <<"/", "x", "?", "q">>}

AbsoluteParts ==
    [scheme : {"http", "https"}, user : AbsoluteUsers, host : AbsoluteHosts,
     port : AbsolutePorts, path : AbsoluteRawPaths]

\* The raw target scheme://[user@]host[:port][path]
AbsoluteRaw(parts) ==
    (IF parts.scheme = "http" THEN <<"h", "t", "t", "p">> ELSE <<"h", "t", "t", "p", "s">>)
        \o <<":", "/", "/">>
        \o (IF parts.user.some THEN parts.user.val \o <<"@">> ELSE <<>>)
        \o parts.host
        \o (IF parts.port.some THEN <<":">> \o parts.port.val ELSE <<>>)
        \o parts.path

AbsoluteInit ==
    /\ sub \in AbsoluteParts
    /\ \E m \in {"GET", "OPTIONS"} : uri_in = [method |-> m, raw |-> AbsoluteRaw(sub)]
    /\ uri_out = [done |-> FALSE]
    /\ gen = Idle /\ pc = "idle" /\ configs = <<>> /\ cur = Idle /\ output = Idle
    /\ nparsed = 0 /\ written = <<>> /\ last = Idle

SpecAbsolute == AbsoluteInit /\ [][UriFrom]_vars

\* The URI that the parts of the target stand for.
AbsoluteExpected ==
    [form |-> "AbsoluteForm", scheme |-> sub.scheme,
     authority |-> [user_info |-> IF sub.user.some THEN decode_percent(sub.user.val)
                                  ELSE NoneOpt,
                    host |-> decode_percent(sub.host).val,
                    port |-> IF sub.port.some THEN ParseU16(sub.port.val) ELSE NoneOpt],
     path |-> parse_absolute_path(sub.path, TRUE).val]

\* C38 (as claimed): for a target http://U@H[:P][/path] of a request that is
\* not CONNECT, with U of user-info characters and H of host characters,
\* the parser returns AbsoluteForm with the decoded U as user_info, the
\* decoded H as host, P as port and the parsed path.
C38_AbsoluteFormWithUserInfo ==
    (uri_out.done /\ sub.user.some) =>
        uri_out.res.ok /\ uri_out.res.val = AbsoluteExpected

(***************************************************************************)
(* Specification of the way of a target from the request line to the file  *)
(* that is opened: Uri::from in the parser, get_req_targets in             *)
(* ResponseGenerator::new, the authentication check and File::open in      *)
(* get_response.                                                           *)
(***************************************************************************)
\* get_req_targets, from the parsing of the routed target on.
TargetsOfRouted(request, config, raw_target, routed_target, uri) ==
    IF uri.ok
    THEN [raw_target |-> raw_target, routed_target |-> routed_target,
          request |-> [request EXCEPT !.uri = uri.val],
          target_file |-> config.file_root \o <<"/">> \o to_string_no_query(uri.val)]
    ELSE [raw_target |-> raw_target, routed_target |-> routed_target,
          request |-> request,
          target_file |-> config.file_root \o routed_target]

\* get_req_targets, from the rewriting of the raw target on.
TargetsOfRaw(request, config, raw_target, rewritten) ==
    TargetsOfRouted(request, config, raw_target,
                    IF rewritten.some THEN rewritten.val ELSE raw_target,
                    UriParse(request.method, IF rewritten.some THEN rewritten.val ELSE raw_target))

\* ResponseGenerator::get_req_targets: the three targets, and the request
\* with the URI of the routed target if that is one.
get_req_targets(request, config) ==
    TargetsOfRaw(request, config, UriToString(request.uri),
                 rewrite_url(config.routing_table, UriToString(request.uri)))

\* The raw targets of the requests: plain ones, ones with percent-encoded
\* letters, dots and percent signs, and one with a segment of two dots.
ServedRawTargets ==
    {<<"/", "s", "/", "a">>,
     <<"/", "%", "7", "3", "/", "a">>,
     <<"/", "p">>,
     <<"/", "x">>,
     <<"/", ".", "/", "s", "/", "a">>,
     <<"/", "%", "2", "e", "/", "s", "/", "a">>,
     <<"/", "s", "/", "%", "2", "e", "%", "2", "e", "/", "x">>,
     <<"/", "x", "/", "%", "2", "e", "%", "2", "e", "/", "s", "/", "a">>,
     <<"/", "%", "2", "e", "%", "2", "e", "/", "x">>,
     <<"/", "%", "2", "5", "2", "e", "%", "2", "5", "2", "e", "/", "x">>,
     <<"/", ".", ".", "/", "x">>}

\* The rule that rewrites /p to /s/a.
RuleP ==
    [exact |-> FALSE, parts |-> <<[kind |-> "String", text |-> <<"/", "p">>]>>,
     replacement |-> <<[kind |-> "String", text |-> <<"/", "s", "/", "a">>]>>]

ServedConfigs ==
    [file_root : {<<"w">>}, basic_auth : {<<>>, <<RealmA>>}, routing_table : {<<>>, <<RuleP>>}]

\* The Authorization header of the request: none, the credentials u:p of
\* realm A, or the credentials u:q.
ServedCredentials ==
    [none |-> NoHeaders,
     valid |-> headers_set_one(NoHeaders, "authorization",
                               <<"B", "a", "s", "i", "c", " ", "d", "T", "p", "w">>),
     invalid |-> headers_set_one(NoHeaders, "authorization",
                                 <<"B", "a", "s", "i", "c", " ", "d", "T", "p", "x">>)]

ServedInit ==
    /\ sub \in [state : {"request line"}, method : {"GET", "HEAD"}, raw : ServedRawTargets,
                credentials : DOMAIN ServedCredentials, config : ServedConfigs,
                request : {Idle}, target_file : {<<>>}, opened : {NoneOpt},
                required_auth : {FALSE}, status : {0}]
    /\ uri_in = Idle /\ uri_out = Idle /\ gen = Idle /\ pc = "idle" /\ configs = <<>>
    /\ cur = Idle /\ output = Idle /\ nparsed = 0 /\ written = <<>> /\ last = Idle

\* parse_request_line: Uri::from on the raw target; an error ends the request.
ServedParse ==
    /\ sub.state = "request line"
    /\ \E uri \in {UriParse(sub.method, sub.raw)} :
          sub' = IF uri.ok
                 THEN [sub EXCEPT !.state = "parsed",
                                  !.request = [method |-> sub.method, uri |-> uri.val,
                                               headers |-> ServedCredentials[sub.credentials]]]
                 ELSE [sub EXCEPT !.state = "rejected", !.status = 400]
    /\ ParseUnchanged

\* ResponseGenerator::new
ServedNewGenerator ==
    /\ sub.state = "parsed"
    /\ \E t \in {get_req_targets(sub.request, sub.config)} :
          sub' = [sub EXCEPT !.state = "auth", !.request = t.request,
                             !.target_file = t.target_file]
    /\ ParseUnchanged

\* get_response: the authentication check.
ServedCheckAuth ==
    /\ sub.state = "auth"
    /\ \E r \in {check(sub.request, sub.config)} :
          sub' = IF r.ok THEN [sub EXCEPT !.state = "open", !.required_auth = r.val]
                 ELSE [sub EXCEPT !.state = "challenged", !.status = r.err.status]
    /\ ParseUnchanged

\* get_response: File::open(&self.target_file)
ServedOpen ==
    /\ sub.state = "open"
    /\ sub' = [sub EXCEPT !.state = "opened", !.opened = Some(sub.target_file)]
    /\ ParseUnchanged

ServedNext == ServedParse \/ ServedNewGenerator \/ ServedCheckAuth \/ ServedOpen

SpecServed == ServedInit /\ [][ServedNext]_vars

\* The components of a path after resolving: empty components and . are
\* dropped, .. takes the component before it away and stays where there is
\* none.
RECURSIVE ResolveComponents(_, _)
ResolveComponents(parts, stack) ==
    IF parts = <<>> THEN stack
    ELSE IF Head(parts) = <<>> \/ Head(parts) = <<".">>
    THEN ResolveComponents(Tail(parts), stack)
    ELSE IF Head(parts) = <<".", ".">> /\ stack # <<>> /\ stack[Len(stack)] # <<".", ".">>
    THEN ResolveComponents(Tail(parts), SubSeq(stack, 1, Len(stack) - 1))
    ELSE ResolveComponents(Tail(parts), Append(stack, Head(parts)))

ResolvedPath(path) == ResolveComponents(Split(path, "/"), <<>>)

\* The resolved path has the resolved root as the first of its components.
InsideRoot(path, root) ==
    /\ Len(ResolvedPath(path)) >= Len(ResolvedPath(root))
    /\ SubSeq(ResolvedPath(path), 1, Len(ResolvedPath(root))) = ResolvedPath(root)

\* C32 (as claimed): the path that the response generator opens lies inside
\* file_root: after resolving . and .. it has file_root as a prefix, for
\* every raw target that the parser accepts, also when the routed target
\* does not parse as a URI again.
C32_OpensInsideFileRoot ==
    sub.state = "opened" => InsideRoot(sub.opened.val, sub.config.file_root)

\* The target, relative to file_root, of the file that was opened.
ServedTarget ==
    <<"/">> \o Join(SubSeq(ResolvedPath(sub.opened.val),
                           Len(ResolvedPath(sub.config.file_root)) + 1,
                           Len(ResolvedPath(sub.opened.val))), <<"/">>)

\* C33 (as claimed): if the file that is opened for a request is one that a
\* target matching a route of a realm resolves to, the request carried valid
\* credentials for the realm, whatever the spelling of the raw target and
\* whether or not it was rewritten.
C33_NoBypassBySpelling ==
    (sub.state = "opened" /\ InsideRoot(sub.opened.val, sub.config.file_root)) =>
        \A i \in 1..Len(sub.config.basic_auth) :
            RealmMatches(sub.config.basic_auth[i], ServedTarget) => sub.credentials = "valid"

(***************************************************************************)
(* Specification of the executor with connection tasks that run CGI        *)
(* scripts.  The executor has a number of worker threads; a task is ready, *)
(* is run by a worker, or is suspended at an await and holds no worker.    *)
(* CgiRunner::get_script_output writes to the stdin of the script and      *)
(* waits for its exit with calls of std::process, which return only when   *)
(* they are done: the task keeps its worker meanwhile.                     *)
(***************************************************************************)
MaxTasks == 3

MaxWorkers == 2

ExecTasks == 1..MaxTasks

\* The workers that run no task.
FreeWorkers == {w \in 1..sub.workers : \A c \in ExecTasks : sub.tasks[c].worker # w}

ExecInit ==
    /\ sub \in [workers : 1..MaxWorkers,
                tasks : {[c \in ExecTasks |-> [state |-> "ready", worker |-> 0]]}]
    /\ uri_in = Idle /\ uri_out = Idle /\ gen = Idle /\ pc = "idle" /\ configs = <<>>
    /\ cur = Idle /\ output = Idle /\ nparsed = 0 /\ written = <<>> /\ last = Idle

\* The executor polls a ready task on a worker that is free.
ExecPoll(c) ==
    /\ sub.tasks[c].state = "ready"
    /\ \E w \in FreeWorkers :
          sub' = [sub EXCEPT !.tasks[c] = [state |-> "running", worker |-> w]]
    /\ ParseUnchanged

\* handle_conn reaches an await of a socket read or write that is pending:
\* the task is suspended and its worker is free.
ExecAwait(c) ==
    /\ sub.tasks[c].state = "running"
    /\ sub' = [sub EXCEPT !.tasks[c] = [state |-> "suspended", worker |-> 0]]
    /\ ParseUnchanged

\* The socket is ready: the task is woken.
ExecWake(c) ==
    /\ sub.tasks[c].state = "suspended"
    /\ sub' = [sub EXCEPT !.tasks[c].state = "ready"]
    /\ ParseUnchanged

\* get_script_output: the script is spawned and the body of the request is
\* written to its stdin with std::io::Write::write.
ExecWriteStdin(c) ==
    /\ sub.tasks[c].state = "running"
    /\ sub' = [sub EXCEPT !.tasks[c].state = "writing stdin"]
    /\ ParseUnchanged

\* The script has taken the body: get_script_output calls wait_with_output.
ExecWaitWithOutput(c) ==
    /\ sub.tasks[c].state = "writing stdin"
    /\ sub' = [sub EXCEPT !.tasks[c].state = "waiting for script"]
    /\ ParseUnchanged

\* The script exits: wait_with_output returns and the task goes on.
ExecScriptExits(c) ==
    /\ sub.tasks[c].state = "waiting for script"
    /\ sub' = [sub EXCEPT !.tasks[c].state = "running"]
    /\ ParseUnchanged

\* handle_conn returns: the connection is closed.
ExecClose(c) ==
    /\ sub.tasks[c].state = "running"
    /\ sub' = [sub EXCEPT !.tasks[c] = [state |-> "closed", worker |-> 0]]
    /\ ParseUnchanged

ExecNext ==
    \E c \in ExecTasks :
        \/ ExecPoll(c) \/ ExecAwait(c) \/ ExecWake(c) \/ ExecWriteStdin(c)
        \/ ExecWaitWithOutput(c) \/ ExecScriptExits(c) \/ ExecClose(c)

SpecExec == ExecInit /\ [][ExecNext]_vars

\* The executor is fair to the ready tasks, sockets become ready and a task
\* that runs goes on; nothing says when a script takes its input or exits.
SpecExecFair ==
    /\ SpecExec
    /\ \A c \in ExecTasks :
          /\ SF_vars(ExecPoll(c))
          /\ WF_vars(ExecWake(c))
          /\ WF_vars(ExecAwait(c) \/ ExecWriteStdin(c) \/ ExecClose(c))

\* The task works on its script: it writes to its stdin or waits for its exit.
AtScript(c) == sub.tasks[c].state \in {"writing stdin", "waiting for script"}

\* C40 (as claimed): waiting for a CGI script is a suspension point: while a
\* connection task writes to the stdin of its script or waits for its exit,
\* the executor still runs the other tasks, so every other task that is
\* ready is run, however long the script runs.
C40_ScriptWaitLetsOthersRun ==
    \A c \in ExecTasks :
        (sub.tasks[c].state = "ready" /\ \E d \in ExecTasks : AtScript(d))
            ~> (sub.tasks[c].state # "ready")

====
